---- MODULE Spec2Model ----
(***************************************************************************)
(* A model of the hex-grid engine of hexal: the offset-coordinate geometry *)
(* (services/hexGeometry.ts), the marker drag state machine                *)
(* (hooks/useMarkerDrag.ts) as it is driven by the pointer handlers of     *)
(* components/HexGrid.tsx, the marker actions of the campaign reducer      *)
(* (stores/CampaignContext.tsx) and the camera of HexGrid.tsx.             *)
(*                                                                         *)
(* Numbers.  World and screen coordinates are pixels.  A vertical world    *)
(* coordinate may hold a multiple of sqrt(3) (VERTICAL_SPACING is          *)
(* 30*sqrt(3)), so a "surd" [a, b] stands for a + b*sqrt(3) with integer   *)
(* a and b, and every comparison on surds is exact.  The camera's zoom is  *)
(* kept in units of 1/ZS and its pan in units of 1/PS pixel.               *)
(***************************************************************************)
EXTENDS Integers, Sequences, FiniteSets, TLC

VARIABLES
  gridWidth, gridHeight,      \* campaign.gridWidth, campaign.gridHeight
  gPoint, gResult, gDone,     \* a point handed to coordinateAt, and its result
  hexes,                      \* campaign.hexes: per cell, its marker list (Null: no list)
  past, future,               \* the reducer's undo and redo stacks of campaigns
  nextId,                     \* the next marker id createMarker hands out
  zoomLevel, targetZoom,      \* HexGrid's camera: current and target zoom (1/ZoomUnit)
  panOffset, targetPan,       \* current and target pan (1/PanUnit pixel)
  isAnimating,                \* isAnimatingRef.current
  pendingFrames,              \* ids of the animation frame callbacks requested and neither
                              \*   run nor cancelled yet
  animationFrameRef,          \* animationFrameRef.current (0: null)
  anchor,                     \* history: the last input was a wheel toward this pointer
                              \*   position, issued at this current pan and zoom
  selectedCoordinate,         \* SelectionContext
  selectedMarker,
  drag,                       \* useMarkerDrag's state
  dragStartRef, velocityRef,  \* useMarkerDrag's refs
  dropTimer,                  \* the drop animation's timeout is pending
  moves,                      \* how many moves the gesture in progress has seen
  gestures,                   \* how many gestures (marker presses, camera inputs) have begun
  isPotentialDrag,            \* HexGrid's drag-to-pan state
  isDraggingMap,
  dragMapStartRef,
  lastEvent,                  \* history: the handler that ran last,
  prevPhase,                  \*   the drag phase it started in,
  lastRelease,                 \*   the cell a release resolved,
  calls,                      \*   and the callbacks it invoked, in order
  lodZoom, lod,               \* a zoom level handed to getLOD, and the row it returned
  hexContent,                 \* campaign.hexes: per cell, its terrain, status and content lists
  tooltip,                    \* HexGrid's tooltip state (Null: none)
  resolved,                   \* history: the last pointer event, its world point and its target
  cache,                      \* FigurineCache.cache, in insertion order
  loadingPromises,            \* FigurineCache.loadingPromises: key -> load
  loads,                      \* every load getImage has started: its key and outcome so far
  clock,                      \* Date.now()
  cacheLog                    \* history: the cache's last operation and what it did

geomVars == <<gPoint, gResult, gDone>>
gridVars == <<gridWidth, gridHeight>>
storeVars == <<hexes, past, future, nextId>>
camVars ==
  <<zoomLevel, targetZoom, panOffset, targetPan, isAnimating, pendingFrames, animationFrameRef,
    anchor>>
selVars == <<selectedCoordinate, selectedMarker>>
dragVars == <<drag, dragStartRef, velocityRef, dropTimer, moves, gestures>>
mapVars == <<isPotentialDrag, isDraggingMap, dragMapStartRef>>
histVars == <<lastEvent, prevPhase, lastRelease, calls>>
lodVars == <<lodZoom, lod>>
renderVars == <<hexContent, tooltip, resolved>>
cacheVars == <<cache, loadingPromises, loads, clock, cacheLog>>
viewVars == <<lodVars, renderVars, cacheVars>>
vars == <<gridWidth, gridHeight, gPoint, gResult, gDone, hexes, past, future, nextId,
          zoomLevel, targetZoom, panOffset, targetPan, isAnimating, pendingFrames,
          animationFrameRef, anchor,
          selectedCoordinate, selectedMarker,
          drag, dragStartRef, velocityRef, dropTimer, moves, gestures,
          isPotentialDrag, isDraggingMap, dragMapStartRef, lastEvent, prevPhase, lastRelease, calls,
          lodZoom, lod,
          hexContent, tooltip, resolved,
          cache, loadingPromises, loads, clock, cacheLog>>

Null == [null |-> TRUE]

\* An animation frame callback is pending.
rafScheduled == pendingFrames # {}

\* Fixed point: zoom 1.0 is ZoomUnit, one pixel of pan is PanUnit.
ZoomUnit == 10000
PanUnit == 100

\* useMarkerDrag's initial state, to which cancel, click and the drop timer reset.
IdleDrag ==
  [phase |-> "idle", marker |-> Null, sourceHex |-> Null, currentPosition |-> Null,
   tiltAngle |-> 0]

\* The variables a specification does not use rest at these values.
StoreIdle == hexes = <<>> /\ past = <<>> /\ future = <<>> /\ nextId = 0
GeomIdle == gPoint = Null /\ gResult = Null /\ gDone = FALSE
CamAtRest ==
  /\ zoomLevel = ZoomUnit /\ targetZoom = ZoomUnit
  /\ panOffset = [x |-> 0, y |-> 0] /\ targetPan = [x |-> 0, y |-> 0]
  /\ isAnimating = FALSE /\ pendingFrames = {} /\ animationFrameRef = 0 /\ anchor = Null
SelIdle == selectedCoordinate = Null /\ selectedMarker = Null
DragIdle ==
  /\ drag = IdleDrag /\ dragStartRef = Null
  /\ velocityRef = [lastX |-> 0, velocity |-> 0]
  /\ dropTimer = FALSE
  /\ moves = 0 /\ gestures = 0
MapIdle ==
  /\ isPotentialDrag = FALSE /\ isDraggingMap = FALSE
  /\ dragMapStartRef = [x |-> 0, y |-> 0, panX |-> 0, panY |-> 0, onActiveHex |-> FALSE]
HistIdle == lastEvent = "none" /\ prevPhase = "idle" /\ lastRelease = Null /\ calls = <<>>
LodIdle == lodZoom = 0 /\ lod = Null
RenderIdle == hexContent = <<>> /\ tooltip = Null /\ resolved = Null
CacheIdle ==
  /\ cache = <<>> /\ loadingPromises = <<>> /\ loads = <<>> /\ clock = 0 /\ cacheLog = Null
ViewIdle == LodIdle /\ RenderIdle /\ CacheIdle

(***************************************************************************)
(* Exact arithmetic on a + b*sqrt(3).                                      *)
(***************************************************************************)
Surd(a, b) == [a |-> a, b |-> b]

IntSign(n) == IF n > 0 THEN 1 ELSE IF n < 0 THEN -1 ELSE 0

\* The sign of x - y*sqrt(3) for x, y >= 0, without squaring (TLC's integers
\* are 32 bits wide).  For y < x < 2y, with d = x - y, the sign is that of
\* d - y*(sqrt(3) - 1), which times (sqrt(3) + 1) is d*sqrt(3) - (2y - d).
RECURSIVE PosSurdSign(_, _)
PosSurdSign(x, y) ==
  IF y = 0 THEN IntSign(x)
  ELSE IF x >= 2 * y THEN 1
  ELSE IF x <= y THEN -1
  ELSE -PosSurdSign(2 * y - (x - y), x - y)

\* The sign of a + b*sqrt(3): sqrt(3) is irrational, so it is 0 only at a = b = 0.
SurdSign(s) ==
  CASE s.b = 0 -> IntSign(s.a)
    [] s.a >= 0 /\ s.b > 0 -> 1
    [] s.a <= 0 /\ s.b < 0 -> -1
    [] s.a > 0 /\ s.b < 0 -> PosSurdSign(s.a, -s.b)
    [] OTHER -> -PosSurdSign(-s.a, s.b)

SurdSub(s, t) == Surd(s.a - t.a, s.b - t.b)
SurdAdd(s, t) == Surd(s.a + t.a, s.b + t.b)
SurdMul(s, t) == Surd(s.a * t.a + 3 * s.b * t.b, s.a * t.b + s.b * t.a)
SurdLess(s, t) == SurdSign(SurdSub(t, s)) > 0
SurdLeq(s, t) == SurdSign(SurdSub(t, s)) >= 0

(***************************************************************************)
(* services/hexGeometry.ts                                                 *)
(***************************************************************************)
HEX_SIZE == 30
HORIZONTAL_SPACING == 45              \* HEX_SIZE * 1.5
VERTICAL_SPACING == Surd(0, 30)       \* HEX_SIZE * Math.sqrt(3)
HalfVerticalSpacing == Surd(0, 15)    \* VERTICAL_SPACING / 2

Coord(q, r) == [q |-> q, r |-> r]
Point(x, y) == [x |-> x, y |-> y]     \* x an integer, y a surd

InBounds(c, w, h) == c.q >= 0 /\ c.q < w /\ c.r >= 0 /\ c.r < h

GridCells(w, h) == { Coord(q, r) : <<q, r>> \in (0 .. (w - 1)) \X (0 .. (h - 1)) }

\* coord.q % 2 === 0 ? 0 : VERTICAL_SPACING / 2
YOffset(q) == IF q % 2 = 0 THEN Surd(0, 0) ELSE HalfVerticalSpacing

\* A centre without the HEX_SIZE inset from the left edge.
hexCenterWithoutInset(coord) ==
  Point(coord.q * HORIZONTAL_SPACING,
        SurdAdd(SurdAdd(Surd(0, 30 * coord.r), YOffset(coord.q)), Surd(HEX_SIZE, 0)))

hexCenter(coord) ==
  Point(coord.q * HORIZONTAL_SPACING + HEX_SIZE,
        SurdAdd(SurdAdd(Surd(0, 30 * coord.r), YOffset(coord.q)), Surd(HEX_SIZE, 0)))

canvasSize(width, height) ==
  [width |-> width * HORIZONTAL_SPACING + HEX_SIZE,
   height |-> SurdAdd(SurdAdd(Surd(0, 30 * height), HalfVerticalSpacing), Surd(HEX_SIZE, 0))]

\* Math.floor(s / VERTICAL_SPACING): the r with r*30*sqrt(3) <= s < (r+1)*30*sqrt(3),
\* found next to the estimate (a / sqrt(3) + b) / 30 for s = a + b*sqrt(3).
RowRange(s) ==
  LET est == ((s.a * 577) \div 1000 + s.b) \div 30 IN (est - 2) .. (est + 2)
FloorRows(s) ==
  CHOOSE r \in RowRange(s) :
    /\ SurdLeq(Surd(0, 30 * r), s)
    /\ SurdLess(s, Surd(0, 30 * (r + 1)))

\* The square of the Euclidean distance between two points, a surd.
DistSq(p, c) ==
  LET dx == p.x - c.x
      dy == SurdSub(p.y, c.y)
  IN  SurdAdd(Surd(dx * dx, 0), SurdMul(dy, dy))

RadiusSq == Surd(HEX_SIZE * HEX_SIZE, 0)

\* The neighbours coordinateAt tries, in its order.
Neighbors(q, r) == << Coord(q - 1, r), Coord(q + 1, r), Coord(q, r - 1), Coord(q, r + 1) >>

\* A column test that lets the column just past the grid through.
ColumnOutsideInclusive(q, w) == q < 0 \/ q > w

\* The column test of coordinateAt: if (q < 0 || q >= gridWidth) return null.
ColumnOutside(q, w) == q < 0 \/ q >= w

\* The row test of coordinateAt: if (r < 0 || r >= gridHeight) return null.
RowOutside(r, h) == r < 0 \/ r >= h

\* The neighbour loop's test: a neighbour strictly nearer than the candidate
\* and within HEX_SIZE of the point wins.
NeighborWins(nDistSq, distSq) == SurdLess(nDistSq, distSq) /\ SurdLeq(nDistSq, RadiusSq)

coordinateAt(point, w, h) ==
  LET q == (point.x - HEX_SIZE \div 2) \div HORIZONTAL_SPACING
  IN  IF ColumnOutside(q, w) THEN Null
      ELSE
        LET r == FloorRows(SurdSub(point.y, YOffset(q)))
        IN  IF RowOutside(r, h) THEN Null
            ELSE
              LET distSq == DistSq(point, hexCenter(Coord(q, r)))
                  ns == Neighbors(q, r)
                  hit(i) == /\ InBounds(ns[i], w, h)
                            /\ NeighborWins(DistSq(point, hexCenter(ns[i])), distSq)
                  hits == { i \in 1 .. 4 : hit(i) }
              IN  IF SurdLeq(distSq, RadiusSq) THEN Coord(q, r)
                  ELSE IF hits # {}
                    THEN ns[CHOOSE i \in hits : \A j \in hits : i <= j]
                    ELSE Coord(q, r)

(***************************************************************************)
(* stores/CampaignContext.tsx: the marker actions of campaignReducer.      *)
(* The reducer's state is [hexes, past, future]; of a campaign only the    *)
(* marker lists of its cells are kept: hexes[c] is [markers |-> list], or  *)
(* Null for a cell with no hex or with a hex that has no markers field.    *)
(* A marker's worldX and worldY are written together everywhere, so they   *)
(* are one field pos, Null when they are undefined.                        *)
(***************************************************************************)
MAX_HISTORY_SIZE == 50

StoreState == [hexes |-> hexes, past |-> past, future |-> future]

Undefined == "undefined"

\* createMarker(typeId, label, worldPosition): no color, and pos is Null when
\* no world position is given.
createMarker(id, typeId, label, pos) ==
  [id |-> id, typeId |-> typeId, label |-> label, color |-> Undefined, pos |-> pos]

\* hex.markers.filter(m => m.id !== markerId)
WithoutMarker(markers, markerId) ==
  LET keep(m) == m.id # markerId IN SelectSeq(markers, keep)

\* hex.markers.find(m => m.id === markerId): the first such marker, or Null.
FindMarker(markers, markerId) ==
  LET idx == { i \in 1 .. Len(markers) : markers[i].id = markerId }
  IN  IF idx = {} THEN Null ELSE markers[CHOOSE i \in idx : \A j \in idx : i <= j]

PushPastUncapped(S) == Append(S.past, S.hexes)

\* [...state.past, state.campaign].slice(-MAX_HISTORY_SIZE)
PushPast(S) ==
  LET all == Append(S.past, S.hexes)
  IN  IF Len(all) <= MAX_HISTORY_SIZE THEN all
      ELSE SubSeq(all, Len(all) - MAX_HISTORY_SIZE + 1, Len(all))

\* hex.markers || []
MarkersOrEmpty(h) == IF h = Null THEN <<>> ELSE h.markers

HexWith(markers) == [markers |-> markers]

Edited(S, newHexes) == [hexes |-> newHexes, past |-> PushPast(S), future |-> <<>>]

\* case 'ADD_MARKER'
ReduceAddMarker(S, coord, marker) ==
  Edited(S, [S.hexes EXCEPT ![coord] = HexWith(Append(MarkersOrEmpty(S.hexes[coord]), marker))])

\* case 'REMOVE_MARKER'
ReduceRemoveMarker(S, coord, markerId) ==
  IF S.hexes[coord] = Null THEN S
  ELSE Edited(S, [S.hexes EXCEPT ![coord] = HexWith(WithoutMarker(S.hexes[coord].markers, markerId))])

\* A MOVE_MARKER that overwrites the destination's list with the moved marker.
MoveDestinationOverwriting(S, toCoord, marker) == <<[marker EXCEPT !.pos = Null]>>

\* The destination list MOVE_MARKER writes: the destination hex's markers as
\* they are in the state the action was dispatched on, plus the moved marker
\* with its world position cleared.
MoveDestination(S, toCoord, marker) ==
  Append(MarkersOrEmpty(S.hexes[toCoord]), [marker EXCEPT !.pos = Null])

\* case 'MOVE_MARKER': the object literal writes [fromKey] and then [toKey].
ReduceMoveMarker(S, fromCoord, toCoord, markerId) ==
  IF S.hexes[fromCoord] = Null THEN S
  ELSE
    LET marker == FindMarker(S.hexes[fromCoord].markers, markerId)
    IN  IF marker = Null THEN S
        ELSE
          LET fromMarkers == WithoutMarker(S.hexes[fromCoord].markers, markerId)
              toMarkers == MoveDestination(S, toCoord, marker)
              afterFrom == [S.hexes EXCEPT ![fromCoord] = HexWith(fromMarkers)]
          IN  Edited(S, [afterFrom EXCEPT ![toCoord] = HexWith(toMarkers)])

\* case 'MOVE_MARKER_TO_POSITION'
ReduceMoveMarkerToPosition(S, coord, markerId, worldPos) ==
  IF S.hexes[coord] = Null THEN S
  ELSE
    LET ms == S.hexes[coord].markers
        moved == [i \in 1 .. Len(ms) |->
                    IF ms[i].id = markerId
                      THEN [ms[i] EXCEPT !.pos = worldPos]
                      ELSE ms[i]]
    IN  Edited(S, [S.hexes EXCEPT ![coord] = HexWith(moved)])

ReduceUndoForgettingFuture(S) ==
  IF Len(S.past) = 0 THEN S
  ELSE [hexes |-> S.past[Len(S.past)],
        past |-> SubSeq(S.past, 1, Len(S.past) - 1),
        future |-> <<S.hexes>>]

\* case 'UNDO'
ReduceUndo(S) ==
  IF Len(S.past) = 0 THEN S
  ELSE [hexes |-> S.past[Len(S.past)],
        past |-> SubSeq(S.past, 1, Len(S.past) - 1),
        future |-> <<S.hexes>> \o S.future]

\* case 'REDO'
ReduceRedo(S) ==
  IF Len(S.future) = 0 THEN S
  ELSE [hexes |-> S.future[1],
        past |-> Append(S.past, S.hexes),
        future |-> Tail(S.future)]

\* The store takes the reducer's result.
Dispatch(S) == hexes' = S.hexes /\ past' = S.past /\ future' = S.future

\* How often a marker id occurs in one list, and in the whole campaign.
CountIn(markers, markerId) == Cardinality({ i \in 1 .. Len(markers) : markers[i].id = markerId })

RECURSIVE SumOver(_, _)
SumOver(f, D) ==
  IF D = {} THEN 0
  ELSE LET d == CHOOSE x \in D : TRUE IN f[d] + SumOver(f, D \ {d})

Occurrences(hx, markerId) ==
  SumOver([c \in DOMAIN hx |-> CountIn(MarkersOrEmpty(hx[c]), markerId)], DOMAIN hx)

(***************************************************************************)
(* The reducer on its own: marker actions, UNDO and REDO are dispatched in *)
(* any order, with any coordinates of the grid.                            *)
(***************************************************************************)
StoreCols == 2          \* the grid of this specification is StoreCols x 1
MaxMarkers == 2         \* how many markers createMarker may make
MaxEdits == 3           \* how long the undo stack may grow

MarkerIds == 1 .. MaxMarkers
StorePositions == { Null, Point(45, Surd(60, 0)) }

CanEdit == Len(past) < MaxEdits

StoreAdd ==
  /\ CanEdit /\ nextId <= MaxMarkers
  /\ \E coord \in GridCells(gridWidth, gridHeight), pos \in StorePositions :
       Dispatch(ReduceAddMarker(StoreState, coord, createMarker(nextId, "player-1", Undefined, pos)))
  /\ nextId' = nextId + 1
  /\ UNCHANGED <<viewVars, gridVars, geomVars, camVars, selVars, dragVars, mapVars, histVars>>

StoreRemove ==
  /\ CanEdit
  /\ \E coord \in GridCells(gridWidth, gridHeight), id \in MarkerIds :
       Dispatch(ReduceRemoveMarker(StoreState, coord, id))
  /\ UNCHANGED <<viewVars, gridVars, geomVars, nextId, camVars, selVars, dragVars, mapVars, histVars>>

StoreMove ==
  /\ CanEdit
  /\ \E fromCoord \in GridCells(gridWidth, gridHeight),
        toCoord \in GridCells(gridWidth, gridHeight), id \in MarkerIds :
       Dispatch(ReduceMoveMarker(StoreState, fromCoord, toCoord, id))
  /\ UNCHANGED <<viewVars, gridVars, geomVars, nextId, camVars, selVars, dragVars, mapVars, histVars>>

StoreMoveToPosition ==
  /\ CanEdit
  /\ \E coord \in GridCells(gridWidth, gridHeight), id \in MarkerIds,
        pos \in StorePositions \ {Null} :
       Dispatch(ReduceMoveMarkerToPosition(StoreState, coord, id, pos))
  /\ UNCHANGED <<viewVars, gridVars, geomVars, nextId, camVars, selVars, dragVars, mapVars, histVars>>

StoreUndo ==
  /\ Dispatch(ReduceUndo(StoreState))
  /\ UNCHANGED <<viewVars, gridVars, geomVars, nextId, camVars, selVars, dragVars, mapVars, histVars>>

StoreRedo ==
  /\ Dispatch(ReduceRedo(StoreState))
  /\ UNCHANGED <<viewVars, gridVars, geomVars, nextId, camVars, selVars, dragVars, mapVars, histVars>>

InitStore ==
  /\ gridWidth = StoreCols /\ gridHeight = 1
  /\ hexes = [c \in GridCells(StoreCols, 1) |-> Null]
  /\ past = <<>> /\ future = <<>>
  /\ nextId = 1
  /\ GeomIdle /\ CamAtRest /\ SelIdle /\ DragIdle /\ MapIdle /\ HistIdle /\ ViewIdle

NextStore ==
  \/ StoreAdd \/ StoreRemove \/ StoreMove \/ StoreMoveToPosition
  \/ StoreUndo \/ StoreRedo

SpecStore == InitStore /\ [][NextStore]_vars

\* C3. Marker ownership: after any sequence of ADD_MARKER (fresh id),
\* REMOVE_MARKER, MOVE_MARKER (any fromCoord/toCoord, equal ones included),
\* MOVE_MARKER_TO_POSITION, UNDO and REDO, every marker id appears in the
\* marker list of at most one cell and at most once in that list.
C3_Ownership == \A id \in MarkerIds : Occurrences(hexes, id) <= 1

(***************************************************************************)
(* The geometry on its own: a grid size and a point are drawn, and         *)
(* Resolve applies coordinateAt to them.                                   *)
(***************************************************************************)
MaxGridW == 3
MaxGridH == 3

\* Offsets from a cell centre that reach the centre, the inside, the corners,
\* the circumscribed circle and just beyond it.
ProbeOffsets == {-31, -30, -16, -15, -1, 0, 1, 15, 16, 30, 31}

\* Probe points: around the centre of every cell of the largest grid and of the
\* ring of cells just outside it.
ProbePoints ==
  { Point(hexCenter(Coord(q, r)).x + dx, SurdAdd(hexCenter(Coord(q, r)).y, Surd(dy, 0))) :
      <<q, r, dx, dy>> \in ((-1) .. MaxGridW) \X ((-1) .. MaxGridH) \X ProbeOffsets \X ProbeOffsets }

InitGeom ==
  /\ StoreIdle /\ CamAtRest /\ SelIdle /\ DragIdle /\ MapIdle /\ HistIdle /\ ViewIdle
  /\ gridWidth \in 1 .. MaxGridW
  /\ gridHeight \in 1 .. MaxGridH
  /\ gPoint \in ProbePoints
  /\ gResult = Null
  /\ gDone = FALSE

Resolve ==
  /\ ~gDone
  /\ gResult' = coordinateAt(gPoint, gridWidth, gridHeight)
  /\ gDone' = TRUE
  /\ UNCHANGED <<gridWidth, gridHeight, gPoint>>
  /\ UNCHANGED <<viewVars, storeVars, camVars, selVars, dragVars, mapVars, histVars>>

NextGeom == Resolve

SpecGeom == InitGeom /\ [][NextGeom]_vars

(***************************************************************************)
(* Claims about the geometry (checked under SpecGeom).                     *)
(***************************************************************************)
\* The point lies outside the rectangle [0, width] x [0, height] of canvasSize.
OutsideExtent(p, w, h) ==
  \/ p.x < 0
  \/ p.x > canvasSize(w, h).width
  \/ SurdSign(p.y) < 0
  \/ SurdLess(canvasSize(w, h).height, p.y)

\* C7. Round trip: for every grid size and every in-bounds coordinate c,
\* coordinateAt applied to hexCenter(c) returns exactly c.
C7_RoundTrip ==
  \A c \in GridCells(gridWidth, gridHeight) :
    (gDone /\ gPoint = hexCenter(c)) => gResult = c

\* C7 witness: the centre of an odd-column cell below the first row was resolved.
C7_Witness ==
  /\ gDone
  /\ \E c \in GridCells(gridWidth, gridHeight) :
       c.q % 2 = 1 /\ c.r > 0 /\ gPoint = hexCenter(c) /\ gResult = c

\* C8. Bounds: coordinateAt returns null for every point outside the extent of
\* canvasSize, and every non-null result is a coordinate of the grid.
C8_Bounds ==
  gDone =>
    /\ OutsideExtent(gPoint, gridWidth, gridHeight) => gResult = Null
    /\ gResult # Null => InBounds(gResult, gridWidth, gridHeight)

\* C8 witness: a point beyond the extent resolved to null.
C8_Witness ==
  /\ gDone
  /\ OutsideExtent(gPoint, gridWidth, gridHeight)
  /\ gPoint.x > 0 /\ SurdSign(gPoint.y) > 0
  /\ gResult = Null

\* A neighbour, not the approximated candidate, was returned.
NeighborChosen ==
  /\ gDone /\ gResult # Null
  /\ gResult.q # (gPoint.x - HEX_SIZE \div 2) \div HORIZONTAL_SPACING


(***************************************************************************)
(* Fixed-point helpers.                                                    *)
(***************************************************************************)
\* a / b rounded to the nearest integer, for b > 0.
RoundDiv(a, b) == (a + b \div 2) \div b

Abs(n) == IF n < 0 THEN -n ELSE n

\* A screen (or canvas) point, in whole pixels.
Screen(x, y) == [x |-> x, y |-> y]

\* (canvas - panOffset) / zoomLevel, to the nearest pixel.  The canvas is shown
\* unscaled (scaleX = scaleY = 1).
ScreenToWorld(p, pan, zoom) ==
  [x |-> RoundDiv((p.x * PanUnit - pan.x) * ZoomUnit, zoom * PanUnit),
   y |-> RoundDiv((p.y * PanUnit - pan.y) * ZoomUnit, zoom * PanUnit)]

\* The world point as coordinateAt takes it.
AsPoint(w) == Point(w.x, Surd(w.y, 0))

(***************************************************************************)
(* Marker figurines: sizes and the positions renderMarkers records for hit *)
(* testing.  Every marker of the model is visible (createMarker) and of a  *)
(* player type, which is drawn at every zoom.                              *)
(***************************************************************************)
FIGURINE_SIZES == [small |-> 28, medium |-> 36, large |-> 44]      \* totalWidth
MARKER_SCREEN_SIZE == [small |-> 16, normal |-> 24, large |-> 32]
ZOOM_THRESHOLDS == [normalSizeMin |-> (8 * ZoomUnit) \div 10, largeSizeMin |-> 2 * ZoomUnit]

getFigurineSizeForMarker(typeId) ==
  IF typeId = "party" THEN "large" ELSE "medium"

\* The targetScreenSize of getMarkerRenderScale; the scale itself is
\* targetScreenSize / zoomLevel / FIGURINE_SIZES.medium.
TargetScreenSize(zoom) ==
  IF zoom < ZOOM_THRESHOLDS.normalSizeMin THEN MARKER_SCREEN_SIZE.small
  ELSE IF zoom < ZOOM_THRESHOLDS.largeSizeMin THEN MARKER_SCREEN_SIZE.normal
  ELSE MARKER_SCREEN_SIZE.large

\* hitRadius = totalWidth * (0.5 * adaptiveScale) / 2, in tenths of a pixel.
HitRadius10(typeId, zoom) ==
  RoundDiv(FIGURINE_SIZES[getFigurineSizeForMarker(typeId)] * TargetScreenSize(zoom) * ZoomUnit * 10,
           4 * FIGURINE_SIZES.medium * zoom)

MarkerPos(m, hexCoord, at, zoom) ==
  [x |-> at.x, y |-> at.y, hexCoord |-> hexCoord, markerId |-> m.id,
   radius |-> HitRadius10(m.typeId, zoom)]

\* renderMarkers for one hex: the positioned markers at their world
\* coordinates, then the first three unpositioned ones in a row through
\* (centre.x, centre.y - 2), spaced 18 * adaptiveScale apart.
renderMarkers(markers, hexCoord, zoom) ==
  LET hasPos(m) == m.pos # Null
      noPos(m) == m.pos = Null
      positioned == SelectSeq(markers, hasPos)
      unpositioned == SelectSeq(markers, noPos)
      n == IF Len(unpositioned) > 3 THEN 3 ELSE Len(unpositioned)
      centre == hexCenter(hexCoord)
      rowX(i) == centre.x + RoundDiv((2 * (i - 1) - (n - 1)) * TargetScreenSize(zoom) * ZoomUnit,
                                     4 * zoom)
      rowY == SurdSub(centre.y, Surd(2, 0))
  IN  [i \in 1 .. Len(positioned) |-> MarkerPos(positioned[i], hexCoord, positioned[i].pos, zoom)]
      \o [i \in 1 .. n |-> MarkerPos(unpositioned[i], hexCoord, Point(rowX(i), rowY), zoom)]

\* Pass 2 of draw: columns outside, rows inside.
RECURSIVE MarkerPositionsFrom(_, _, _, _, _)
MarkerPositionsFrom(k, hx, w, h, zoom) ==
  IF k >= w * h THEN <<>>
  ELSE renderMarkers(MarkersOrEmpty(hx[Coord(k \div h, k % h)]), Coord(k \div h, k % h), zoom)
       \o MarkerPositionsFrom(k + 1, hx, w, h, zoom)

\* markerPositionsRef.current after the draw that follows every change.
MarkerPositions == MarkerPositionsFrom(0, hexes, gridWidth, gridHeight, zoomLevel)

\* distance < hitRadius
WithinRadius(distSq, radius10) ==
  SurdLess(Surd(100 * distSq.a, 100 * distSq.b), Surd(radius10 * radius10, 0))

\* markerPositionsRef.current.find(...): the first recorded marker hit, or Null.
HitMarkerPos(world) ==
  LET mp == MarkerPositions
      hits == { i \in 1 .. Len(mp) :
                  WithinRadius(DistSq(AsPoint(world), Point(mp[i].x, mp[i].y)), mp[i].radius) }
  IN  IF hits = {} THEN Null ELSE mp[CHOOSE i \in hits : \A j \in hits : i <= j]


(***************************************************************************)
(* useMarkerDrag: the drag state machine.  tiltAngle is kept in hundredths *)
(* of a degree and the velocity in whole pixels per second.                *)
(***************************************************************************)
DRAG_THRESHOLD == 8
MAX_TILT == 5
MAX_VELOCITY_FOR_TILT == 500
TiltUnit == 100

\* A tilt that follows the velocity without clamping it.
calculateTiltUnclamped(velocity) == (velocity * MAX_TILT * TiltUnit) \div MAX_VELOCITY_FOR_TILT

calculateTilt(velocity) ==
  LET clampedVelocity ==
        IF velocity < -MAX_VELOCITY_FOR_TILT THEN -MAX_VELOCITY_FOR_TILT
        ELSE IF velocity > MAX_VELOCITY_FOR_TILT THEN MAX_VELOCITY_FOR_TILT
        ELSE velocity
  IN  (clampedVelocity * MAX_TILT * TiltUnit) \div MAX_VELOCITY_FOR_TILT

\* updateVelocity, dt ms after the previous sample:
\* velocity * 0.7 + (dx / dt * 1000) * 0.3 when 0 < dt < 100.
updateVelocity(ref, screenX, dt) ==
  [lastX |-> screenX,
   velocity |-> IF dt > 0 /\ dt < 100
                  THEN RoundDiv(7 * ref.velocity * dt + 3000 * (screenX - ref.lastX), 10 * dt)
                  ELSE ref.velocity]

\* startDrag's new state.
startDrag(marker, hexCoord, screen) ==
  [phase |-> "pending", marker |-> marker, sourceHex |-> hexCoord,
   currentPosition |-> screen, tiltAngle |-> 0]

\* distance > DRAG_THRESHOLD.
ReachedThresholdStrict(start, screen) ==
  (screen.x - start.x) * (screen.x - start.x) + (screen.y - start.y) * (screen.y - start.y)
    > DRAG_THRESHOLD * DRAG_THRESHOLD

\* distance >= DRAG_THRESHOLD, from the press point.
ReachedThreshold(start, screen) ==
  (screen.x - start.x) * (screen.x - start.x) + (screen.y - start.y) * (screen.y - start.y)
    >= DRAG_THRESHOLD * DRAG_THRESHOLD

\* updateDrag leaves Pending for Dragging on this move.
StartsDragging(prev, start, screen) ==
  prev.phase = "pending" /\ start # Null /\ ReachedThreshold(start, screen)

\* updateDrag samples the velocity on this move.
SamplesVelocity(prev, start, screen) ==
  /\ prev.phase \notin {"idle", "dropping"}
  /\ ~(prev.phase = "pending" /\ start # Null /\ ~ReachedThreshold(start, screen))

\* An updateDrag that starts dragging on the first move, whatever its travel.
updateDragEager(prev, start, velocity, screen) ==
  IF prev.phase = "idle" \/ prev.phase = "dropping" THEN prev
  ELSE [prev EXCEPT !.phase = "dragging", !.currentPosition = screen,
                    !.tiltAngle = calculateTilt(velocity)]

\* updateDrag's state updater; velocity is what updateVelocity returned.
updateDrag(prev, start, velocity, screen) ==
  IF prev.phase = "idle" \/ prev.phase = "dropping" THEN prev
  ELSE IF prev.phase = "pending" /\ start # Null
    THEN IF ReachedThreshold(start, screen)
           THEN [prev EXCEPT !.phase = "dragging", !.currentPosition = screen,
                             !.tiltAngle = calculateTilt(velocity)]
           ELSE [prev EXCEPT !.currentPosition = screen]
    ELSE [prev EXCEPT !.currentPosition = screen, !.tiltAngle = calculateTilt(velocity)]

\* An endDrag for which no release counts as a move to another cell.
wasMovedNever(prev, targetHex) == FALSE

\* endDrag's wasMoved.
wasMoved(prev, targetHex) ==
  /\ prev.phase = "dragging"
  /\ targetHex # Null
  /\ (prev.sourceHex = Null \/ targetHex.q # prev.sourceHex.q \/ targetHex.r # prev.sourceHex.r)

\* An endDrag whose drop animation forgets the marker.
endDragForgetting(prev) ==
  IF prev.phase = "idle" THEN prev
  ELSE IF prev.phase = "dragging" THEN [IdleDrag EXCEPT !.phase = "dropping"]
  ELSE IdleDrag

\* endDrag's state updater.
endDrag(prev) ==
  IF prev.phase = "idle" THEN prev
  ELSE IF prev.phase = "dragging" THEN [prev EXCEPT !.phase = "dropping", !.tiltAngle = 0]
  ELSE IdleDrag

\* endDrag notifies onDragEnd.
NotifiesDragEnd(prev) == prev.phase # "idle" /\ prev.marker # Null /\ prev.sourceHex # Null

\* An endDrag that notifies without looking at the state it finds.
endDragCallsUnguarded(prev, targetHex, dragEndCalls) == <<"onDragEnd">> \o dragEndCalls

\* An onDragEnd that goes to the store whatever the release resolved.
DropResolvesAlways(targetHex, dropPosition) == TRUE

\* An endDrag that plays the drop sound for a click as well.
endDragCallsAlwaysDrop(prev, targetHex, dragEndCalls) ==
  IF prev.phase = "idle" THEN <<>>
  ELSE <<"onDrop">>
       \o (IF prev.marker # Null /\ prev.sourceHex # Null
             THEN <<"onDragEnd">> \o dragEndCalls ELSE <<>>)

\* The callbacks endDrag invokes, in order: onDrop when the phase is dragging,
\* then onDragEnd and what HexGrid's onDragEnd calls.
endDragCalls(prev, targetHex, dragEndCalls) ==
  IF prev.phase = "idle" THEN <<>>
  ELSE (IF prev.phase = "dragging" THEN <<"onDrop">> ELSE <<>>)
       \o (IF prev.marker # Null /\ prev.sourceHex # Null
             THEN <<"onDragEnd">> \o dragEndCalls ELSE <<>>)

\* A drop animation effect that sets no timeout.
DropTimerNeverSet(phase, nextPhase, pending) == FALSE

\* The drop animation effect, which re-runs when state.phase changes: the
\* cleanup of the run for "dropping" clears its timeout, and the run for
\* "dropping" sets one.
DropTimerAfter(phase, nextPhase, pending) ==
  IF nextPhase # phase THEN nextPhase = "dropping" ELSE pending

DropEffect == dropTimer' = DropTimerAfter(drag.phase, drag'.phase, dropTimer)

\* A cancel that keeps the gesture pending.
cancelDragKeepingGesture == [drag EXCEPT !.phase = "pending"]

\* cancelDrag's new state.
cancelDrag == IdleDrag

isDragging == drag.phase = "dragging" \/ drag.phase = "dropping"
isPending == drag.phase = "pending"

(***************************************************************************)
(* HexGrid: the onDragEnd it hands to useMarkerDrag, and SelectionContext. *)
(***************************************************************************)
\* onDragEnd reaches the store.
DropResolves(targetHex, dropPosition) == targetHex # Null /\ dropPosition # Null

\* The store after onDragEnd.
onDragEnd(S, marker, sourceHex, targetHex, moved, dropPosition) ==
  IF ~DropResolves(targetHex, dropPosition) THEN S
  ELSE
    LET world == AsPoint(ScreenToWorld(dropPosition, panOffset, zoomLevel))
    IN  IF moved
          THEN ReduceMoveMarkerToPosition(ReduceMoveMarker(S, sourceHex, targetHex, marker.id),
                                          targetHex, marker.id, world)
          ELSE ReduceMoveMarkerToPosition(S, sourceHex, marker.id, world)

\* The store callbacks onDragEnd invokes, in order.
onDragEndCalls(targetHex, moved, dropPosition) ==
  IF ~DropResolves(targetHex, dropPosition) THEN <<>>
  ELSE IF moved THEN <<"moveMarker", "moveMarkerToPosition">>
  ELSE <<"moveMarkerToPosition">>

\* selectMarker(markerId, hexCoord) with both given.
selectMarker(markerId, hexCoord) ==
  /\ selectedMarker' = [markerId |-> markerId, hexCoord |-> hexCoord]
  /\ selectedCoordinate' = hexCoord


(***************************************************************************)
(* Marker gestures: HexGrid's pointer handlers on their marker branch, the *)
(* drop timer, and undo/redo, with the camera at rest.                     *)
(***************************************************************************)
DragGridW == 2
DragGridH == 2
MaxMoves == 2           \* moves per gesture
MaxDragEdits == 3       \* how long the undo stack may grow by gestures
MaxGestures == 2        \* presses on a marker

\* Time between two pointer samples, in ms: within and beyond updateVelocity's window.
FrameTimes == {16, 120}

\* Where the pointer goes: two points on the marker of cell (0,0) that lie
\* DRAG_THRESHOLD apart, a point of cell (0,1), and a point off the grid.
DragPoints ==
  { Screen(35, 30), Screen(27, 30), Screen(45, 60), Screen(200, 200) }

Marker1 == createMarker(1, "player-1", Undefined, Null)
Marker2 == [createMarker(2, "party", "Scouts", Point(30, Surd(80, 0))) EXCEPT !.color = "#c0392b"]

\* The campaign a gesture starts from: an unplaced marker in cell (0,0) and a
\* placed one in the cell below.
DragCampaign ==
  [c \in GridCells(DragGridW, DragGridH) |->
     IF c = Coord(0, 0) THEN HexWith(<<Marker1>>)
     ELSE IF c = Coord(0, 1) THEN HexWith(<<Marker2>>) ELSE Null]

History(event, release, invoked) ==
  /\ lastEvent' = event
  /\ prevPhase' = drag.phase
  /\ lastRelease' = release
  /\ calls' = invoked

\* handleMouseDown on a marker: startDrag.
MouseDownOnMarkerAt(p) ==
    LET hit == HitMarkerPos(ScreenToWorld(p, panOffset, zoomLevel))
    IN  /\ gestures < MaxGestures
        /\ hit # Null
        /\ LET marker == FindMarker(MarkersOrEmpty(hexes[hit.hexCoord]), hit.markerId)
           IN  /\ marker # Null
               /\ drag' = startDrag(marker, hit.hexCoord, p)
        /\ DropEffect
        /\ dragStartRef' = p
        /\ velocityRef' = [lastX |-> p.x, velocity |-> 0]
        /\ moves' = 0
        /\ gestures' = gestures + 1
        /\ History("press", Null, <<>>)
        /\ UNCHANGED <<viewVars, gridVars, geomVars, storeVars, camVars, selVars, mapVars>>

MouseDownOnMarker == \E p \in DragPoints : MouseDownOnMarkerAt(p)

\* handleMouseMove while a marker gesture is on: updateDrag.
MouseMoveOnMarker ==
  /\ isPending \/ isDragging
  /\ moves < MaxMoves
  /\ \E p \in DragPoints, dt \in FrameTimes :
       LET newRef == IF SamplesVelocity(drag, dragStartRef, p)
                       THEN updateVelocity(velocityRef, p.x, dt)
                       ELSE velocityRef
       IN  /\ drag' = updateDrag(drag, dragStartRef, newRef.velocity, p)
           /\ DropEffect
           /\ velocityRef' = newRef
           /\ History("move", Null,
                      IF StartsDragging(drag, dragStartRef, p)
                        THEN <<"onDragStart", "onPickup">> ELSE <<>>)
  /\ moves' = moves + 1
  /\ UNCHANGED <<viewVars, gridVars, geomVars, storeVars, camVars, selVars, mapVars, dragStartRef,
                 gestures>>

\* handleMouseUp while a marker gesture is on: endDrag with the cell under the
\* pointer, which calls onDragEnd; a click then selects the marker.
MouseUpOnMarker ==
  /\ isDragging \/ isPending
  /\ \E p \in DragPoints :
       LET targetHex == coordinateAt(AsPoint(ScreenToWorld(p, panOffset, zoomLevel)),
                                     gridWidth, gridHeight)
           moved == wasMoved(drag, targetHex)
           after == IF NotifiesDragEnd(drag)
                      THEN onDragEnd(StoreState, drag.marker, drag.sourceHex, targetHex,
                                     moved, drag.currentPosition)
                      ELSE StoreState
       IN  /\ Len(after.past) <= MaxDragEdits
           /\ drag' = endDrag(drag)
           /\ DropEffect
           /\ Dispatch(after)
           /\ IF isPending /\ drag.marker # Null /\ drag.sourceHex # Null
                THEN selectMarker(drag.marker.id, drag.sourceHex)
                ELSE UNCHANGED selVars
           /\ History("release", targetHex,
                      endDragCalls(drag, targetHex,
                                   onDragEndCalls(targetHex, moved, drag.currentPosition))
                      \o (IF isPending /\ drag.marker # Null /\ drag.sourceHex # Null
                            THEN <<"selectMarker">> ELSE <<>>))
  /\ UNCHANGED <<viewVars, gridVars, geomVars, nextId, camVars, mapVars, dragStartRef, velocityRef, moves,
                 gestures>>

\* handleMouseLeave: the tooltip goes, cancelDrag, and the drag-to-pan flags
\* are reset.
MouseLeave ==
  /\ IF isPending \/ isDragging
       THEN drag' = cancelDrag /\ dragStartRef' = Null
       ELSE UNCHANGED <<drag, dragStartRef>>
  /\ DropEffect
  /\ isPotentialDrag' = FALSE
  /\ isDraggingMap' = FALSE
  /\ tooltip' = Null
  /\ History("leave", Null, <<>>)
  /\ UNCHANGED <<lodVars, cacheVars, hexContent, resolved, gridVars, geomVars, storeVars,
                 camVars, selVars, velocityRef, moves, gestures, dragMapStartRef>>

\* The drop animation's timeout fires.
DropTimer ==
  /\ dropTimer
  /\ drag' = IdleDrag
  /\ DropEffect
  /\ History("timer", Null, <<>>)
  /\ UNCHANGED <<viewVars, gridVars, geomVars, storeVars, camVars, selVars, mapVars, dragStartRef,
                 velocityRef, moves, gestures>>

\* undo() and redo() of CampaignContext, from the keyboard or the toolbar.
Undo ==
  /\ Dispatch(ReduceUndo(StoreState))
  /\ History("undo", Null, <<>>)
  /\ UNCHANGED <<viewVars, gridVars, geomVars, nextId, camVars, selVars, dragVars, mapVars>>

Redo ==
  /\ Dispatch(ReduceRedo(StoreState))
  /\ History("redo", Null, <<>>)
  /\ UNCHANGED <<viewVars, gridVars, geomVars, nextId, camVars, selVars, dragVars, mapVars>>

Init ==
  /\ gridWidth = DragGridW /\ gridHeight = DragGridH
  /\ hexes = DragCampaign
  /\ past = <<>> /\ future = <<>>
  /\ nextId = 3
  /\ GeomIdle /\ CamAtRest /\ SelIdle /\ DragIdle /\ MapIdle /\ HistIdle /\ ViewIdle

Next ==
  \/ MouseDownOnMarker \/ MouseMoveOnMarker \/ MouseUpOnMarker \/ MouseLeave
  \/ DropTimer \/ Undo \/ Redo

Spec == Init /\ [][Next]_vars


(***************************************************************************)
(* Claims about marker gestures (checked under Spec).                      *)
(***************************************************************************)
Invoked(name) == \E i \in 1 .. Len(calls) : calls[i] = name

MarkersAt(hx, c) == MarkersOrEmpty(hx[c])

\* C1. Click vs. drag: a press on a marker, moves that stay below the drag
\* threshold (the gesture is still Pending) and a release invoke neither
\* moveMarker nor moveMarkerToPosition, only selectMarker.
C1_ClickOnlySelects ==
  (lastEvent = "release" /\ prevPhase = "pending") =>
    /\ ~Invoked("moveMarker")
    /\ ~Invoked("moveMarkerToPosition")
    /\ Invoked("selectMarker")

\* The step is a release of a drag of a marker its source cell owns, over
\* another cell of the grid.
ReleaseOverOtherCell ==
  /\ lastEvent' = "release"
  /\ drag.phase = "dragging"
  /\ lastRelease' # Null
  /\ lastRelease' # drag.sourceHex
  /\ CountIn(MarkersAt(hexes, drag.sourceHex), drag.marker.id) = 1

\* C2. Drag transfer: when marker M owned by cell A is dragged and released
\* over a different in-bounds cell B, afterwards M is absent from A's list,
\* B's list holds exactly one marker with id M, of the same typeId, color and
\* label, and A and B together hold as many markers as before.
C2_DragTransfer ==
  [][ ReleaseOverOtherCell =>
        LET A == drag.sourceHex
            B == lastRelease'
            M == drag.marker.id
            before == FindMarker(MarkersAt(hexes, A), M)
            after == FindMarker(MarkersAt(hexes', B), M)
        IN  /\ InBounds(B, gridWidth, gridHeight)
            /\ CountIn(MarkersAt(hexes', A), M) = 0
            /\ CountIn(MarkersAt(hexes', B), M) = 1
            /\ after.typeId = before.typeId
            /\ after.color = before.color
            /\ after.label = before.label
            /\ Len(MarkersAt(hexes', A)) + Len(MarkersAt(hexes', B))
                 = Len(MarkersAt(hexes, A)) + Len(MarkersAt(hexes, B)) ]_vars

\* C2 witness: marker 1 was dragged out of cell (0,0) and dropped on cell (0,1),
\* which held marker 2.
C2_Witness ==
  /\ lastEvent = "release" /\ prevPhase = "dragging"
  /\ drag.sourceHex = Coord(0, 0) /\ drag.marker.id = 1
  /\ lastRelease = Coord(0, 1)
  /\ Invoked("moveMarker")
  /\ CountIn(MarkersAt(hexes, Coord(0, 0)), 1) = 0
  /\ CountIn(MarkersAt(hexes, Coord(0, 1)), 1) = 1
  /\ CountIn(MarkersAt(hexes, Coord(0, 1)), 2) = 1

\* The phase changes the drag machine is said to make.
PhaseChanges ==
  { <<"idle", "pending">>, <<"pending", "dragging">>, <<"dragging", "dropping">>,
    <<"dropping", "idle">>, <<"pending", "idle">>, <<"dragging", "idle">> }

\* C4. Drag phase transitions: under press, move, release, pointer-leave and
\* drop-timer events the phase changes only Idle->Pending, Pending->Dragging,
\* Dragging->Dropping, Dropping->Idle, Pending->Idle and, by cancel, from any
\* non-idle phase to Idle.
C4_PhaseTransitions ==
  [][ drag'.phase # drag.phase => <<drag.phase, drag'.phase>> \in PhaseChanges ]_vars

\* C5. Cancel: from Pending, Dragging or Dropping, cancelDrag (pointer leave)
\* sets the phase to Idle in that step and invokes no callback, and no marker
\* or cell data is changed.
C5_Cancel ==
  [][ (lastEvent' = "leave" /\ drag.phase # "idle") =>
        /\ drag'.phase = "idle"
        /\ calls' = <<>>
        /\ UNCHANGED <<hexes, past, future>> ]_vars

\* C5 witness: the pointer left during the drop animation of a transfer.
C5_Witness ==
  /\ lastEvent = "leave" /\ prevPhase = "dropping"
  /\ drag = IdleDrag
  /\ dragStartRef = Null
  /\ Len(past) = 2

\* The step releases, at a point of the cell of world point (45, 60), a drag
\* that took the unplaced marker 1 of cell (0,0) to screen point (45, 60),
\* with the camera at rest.
ScenarioBRelease ==
  /\ CamAtRest
  /\ lastEvent' = "release"
  /\ drag.phase = "dragging"
  /\ drag.marker.id = 1
  /\ drag.sourceHex = Coord(0, 0)
  /\ FindMarker(MarkersAt(hexes, Coord(0, 0)), 1) # Null
  /\ FindMarker(MarkersAt(hexes, Coord(0, 0)), 1).pos = Null
  /\ drag.currentPosition = Screen(45, 60)
  /\ lastRelease' = coordinateAt(Point(45, Surd(60, 0)), gridWidth, gridHeight)

OwnedWithPosition(hx, c, markerId, pos) ==
  /\ CountIn(MarkersAt(hx, c), markerId) = 1
  /\ FindMarker(MarkersAt(hx, c), markerId).pos = pos
  /\ Occurrences(hx, markerId) = 1

\* C6 (as amended). Scenario B: the marker placed at cell (0,0) with no explicit
\* position, dragged and released at world position (45,60), ends up owned by
\* cell (0,1) with explicit position (45,60): coordinateAt((45,60)) resolves
\* to (0,1) and the drop transfers ownership there.
C6_ScenarioB ==
  [][ ScenarioBRelease =>
        /\ lastRelease' = Coord(0, 1)
        /\ OwnedWithPosition(hexes', Coord(0, 1), 1, Point(45, Surd(60, 0))) ]_vars

\* C6 as stated: the marker ends up owned by cell (1,0).
C6_ScenarioB_AsStated ==
  [][ ScenarioBRelease =>
        /\ lastRelease' = Coord(1, 0)
        /\ OwnedWithPosition(hexes', Coord(1, 0), 1, Point(45, Surd(60, 0))) ]_vars

\* C6 witness: the scenario's drop has happened.
C6_Witness ==
  /\ lastEvent = "release" /\ prevPhase = "dragging"
  /\ drag.marker.id = 1 /\ drag.marker.pos = Null
  /\ drag.sourceHex = Coord(0, 0)
  /\ drag.currentPosition = Screen(45, 60)
  /\ lastRelease = Coord(0, 1)
  /\ calls = <<"onDrop", "onDragEnd", "moveMarker", "moveMarkerToPosition">>
  /\ OwnedWithPosition(hexes, Coord(0, 1), 1, Point(45, Surd(60, 0)))


(***************************************************************************)
(* HexGrid's camera: zoom and pan inputs set targets, and the animation    *)
(* frame callback moves the current values toward them.                    *)
(***************************************************************************)
MIN_ZOOM == (15 * ZoomUnit) \div 100
MAX_ZOOM == 5 * ZoomUnit
ZOOM_STEP == (3 * ZoomUnit) \div 100
ZOOM_ANIMATION_SPEED == [num |-> 12, den |-> 100]
PAN_SPEED == 20 * PanUnit
ZoomSnap == ZoomUnit \div 1000        \* zoomDiff < 0.001
PanSnap == PanUnit \div 2             \* panDiff < 0.5

\* Every zoom target is a multiple of 0.01.
ZoomGrain == ZoomUnit \div 100

\* Ids of animation frame callbacks in use at one time.
MaxFrames == 4

\* containerRect, in pixels.
Viewport == [width |-> 800, height |-> 600]

\* No clamping.
ClampNone(lo, v, hi) == v

Clamp(lo, v, hi) == IF v < lo THEN lo ELSE IF v > hi THEN hi ELSE v

\* a * zoom, for a length a in pan units and a zoom target.
TimesZoom(a, zoom) == RoundDiv(a * (zoom \div ZoomGrain), ZoomUnit \div ZoomGrain)

\* a * newZoom / zoom, for a length a in pan units and two zoom targets.
Rescale(a, newZoom, zoom) == RoundDiv(a * (newZoom \div ZoomGrain), zoom \div ZoomGrain)

\* A surd of pixels, in pan units.
SurdToPan(s) == s.a * PanUnit + RoundDiv(s.b * 173205, 100000 \div PanUnit)

\* The pan that centres the selected hex in the viewport at newTargetZoom.
PanCentredOn(coord, newTargetZoom) ==
  [x |-> (Viewport.width * PanUnit) \div 2
           - TimesZoom(hexCenter(coord).x * PanUnit, newTargetZoom),
   y |-> (Viewport.height * PanUnit) \div 2
           - TimesZoom(SurdToPan(hexCenter(coord).y), newTargetZoom)]

\* The pan that keeps under the cursor the world point that
\* (cursor - pan) / zoom puts there.
PanKeeping(cursor, pan, zoom, newTargetZoom) ==
  [x |-> cursor.x * PanUnit - Rescale(cursor.x * PanUnit - pan.x, newTargetZoom, zoom),
   y |-> cursor.y * PanUnit - Rescale(cursor.y * PanUnit - pan.y, newTargetZoom, zoom)]

\* handleWheel's cursor branch reads the targets.
WheelPan(cursor, newTargetZoom) == PanKeeping(cursor, targetPan, targetZoom, newTargetZoom)

\* The ids requestAnimationFrame hands out (a browser never hands out an id
\* twice; the model reuses one once no callback and no ref holds it).
FrameIds == 1 .. MaxFrames

FreshFrame(pending, ref) ==
  CHOOSE id \in FrameIds :
    /\ id \notin pending /\ id # ref
    /\ \A other \in FrameIds : (other \notin pending /\ other # ref) => id <= other

\* requestAnimationFrame(animate), its id stored in animationFrameRef.current
requestAnimationFrame(pending, ref) ==
  [pending |-> pending \cup {FreshFrame(pending, ref)}, ref |-> FreshFrame(pending, ref)]

\* A cleanup that cancels nothing.
cancelNothing(pending, ref) == pending

\* The effect's cleanup: if (animationFrameRef.current) cancelAnimationFrame(...)
cancelAnimationFrame(pending, ref) == IF ref # 0 THEN pending \ {ref} ELSE pending

\* An effect that cleans up and requests no frame.
RunEffectWithoutRequest(pending, ref, animating) ==
  [pending |-> cancelAnimationFrame(pending, ref), ref |-> ref]

\* A re-run of the animation effect: the cleanup of the previous run, then
\* the body, which requests a frame if isAnimatingRef is set.
RunEffect(pending, ref, animating) ==
  IF animating
    THEN requestAnimationFrame(cancelAnimationFrame(pending, ref), ref)
    ELSE [pending |-> cancelAnimationFrame(pending, ref), ref |-> ref]

\* The effect re-runs when one of zoomLevel, targetZoom, panOffset, targetPan
\* changes; a setter given the value the state already has is a no-op.
EffectRuns ==
  <<zoomLevel', targetZoom', panOffset', targetPan'>> # <<zoomLevel, targetZoom, panOffset, targetPan>>

EffectAfter(pending, ref, runs) ==
  /\ pendingFrames' = IF runs THEN RunEffect(pending, ref, isAnimating').pending ELSE pending
  /\ animationFrameRef' = IF runs THEN RunEffect(pending, ref, isAnimating').ref ELSE ref

Reschedule == EffectAfter(pendingFrames, animationFrameRef, EffectRuns)

\* A tick that moves nothing.
LerpStalled(value, target) == value

\* A tick that lands as far beyond the target as it started before it.
LerpPast(value, target) == target + (target - value)

\* value + (target - value) * ZOOM_ANIMATION_SPEED
Lerp(value, target) ==
  value + RoundDiv((target - value) * ZOOM_ANIMATION_SPEED.num, ZOOM_ANIMATION_SPEED.den)

zoomDone == Abs(targetZoom - zoomLevel) < ZoomSnap
panDone == Abs(targetPan.x - panOffset.x) < PanSnap /\ Abs(targetPan.y - panOffset.y) < PanSnap


(***************************************************************************)
(* The camera on its own: zoom and pan inputs in any order, at any moment  *)
(* of the animation, with or without a selected cell.                      *)
(***************************************************************************)
MaxCamInputs == 2       \* zoom and pan inputs

WheelPoints == { Screen(400, 300), Screen(100, 50) }
\* The slider's range is MIN_ZOOM to MAX_ZOOM in steps of 0.05: its two ends and 1.5.
SliderValues == { MIN_ZOOM + k * 5 * ZoomGrain : k \in {0, 27, 97} }
PanDeltas ==
  { [x |-> 0, y |-> PAN_SPEED], [x |-> 0, y |-> -PAN_SPEED],
    [x |-> PAN_SPEED, y |-> 0], [x |-> -PAN_SPEED, y |-> 0] }

CamInput(event) ==
  /\ gestures < MaxCamInputs
  /\ gestures' = gestures + 1
  /\ History(event, Null, <<>>)
  /\ UNCHANGED <<viewVars, gridVars, geomVars, storeVars, selVars, mapVars, zoomLevel, panOffset,
                 drag, dragStartRef, velocityRef, dropTimer, moves>>

\* handleWheel
Wheel ==
  \E cursor \in WheelPoints, zoomDelta \in {ZOOM_STEP, -ZOOM_STEP} :
    LET newTargetZoom == Clamp(MIN_ZOOM, targetZoom + zoomDelta, MAX_ZOOM)
    IN  /\ IF newTargetZoom # targetZoom
             THEN /\ targetPan' = IF selectedCoordinate # Null
                                    THEN PanCentredOn(selectedCoordinate, newTargetZoom)
                                    ELSE WheelPan(cursor, newTargetZoom)
                  /\ targetZoom' = newTargetZoom
                  /\ isAnimating' = TRUE
             ELSE UNCHANGED <<targetPan, targetZoom, isAnimating>>
        /\ anchor' = IF newTargetZoom # targetZoom /\ selectedCoordinate = Null
                       THEN [screen |-> cursor, pan |-> panOffset, zoom |-> zoomLevel]
                       ELSE Null
        /\ CamInput("wheel")
        /\ Reschedule

\* zoomIn and zoomOut (Cmd/Ctrl with + or -, and the buttons)
ZoomByKey(event, zoomDelta) ==
  LET newTargetZoom == Clamp(MIN_ZOOM, targetZoom + zoomDelta, MAX_ZOOM)
  IN  /\ IF newTargetZoom # targetZoom
           THEN /\ targetPan' = IF selectedCoordinate # Null
                                  THEN PanCentredOn(selectedCoordinate, newTargetZoom)
                                  ELSE targetPan
                /\ targetZoom' = newTargetZoom
                /\ isAnimating' = TRUE
           ELSE UNCHANGED <<targetPan, targetZoom, isAnimating>>
      /\ anchor' = Null
      /\ CamInput(event)
      /\ Reschedule

zoomIn == ZoomByKey("zoomIn", ZOOM_STEP)

zoomOut == ZoomByKey("zoomOut", -ZOOM_STEP)

resetZoom ==
  /\ targetZoom' = ZoomUnit
  /\ targetPan' = [x |-> 0, y |-> 0]
  /\ isAnimating' = TRUE
  /\ anchor' = Null
  /\ CamInput("reset")
  /\ EffectAfter(pendingFrames, animationFrameRef, TRUE)   \* targetPan is a new object

handleZoomSliderChangeTo(newZoom) ==
  /\ targetZoom' = newZoom
  /\ isAnimating' = TRUE
  /\ anchor' = Null
  /\ UNCHANGED targetPan
  /\ CamInput("slider")
  /\ Reschedule

handleZoomSliderChange == \E newZoom \in SliderValues : handleZoomSliderChangeTo(newZoom)

\* handleKeyDown with W, S, A, D or an arrow key, the canvas having the focus.
PanKeyBy(panDelta) ==
  /\ targetPan' = [x |-> targetPan.x + panDelta.x, y |-> targetPan.y + panDelta.y]
  /\ isAnimating' = TRUE
  /\ anchor' = Null
  /\ UNCHANGED targetZoom
  /\ CamInput("panKey")
  /\ Reschedule

PanKey == \E panDelta \in PanDeltas : PanKeyBy(panDelta)

\* animate, run by a pending animation frame, and the effect its state
\* updates bring about.  The lerp branch sets panOffset to a new object, so
\* the effect re-runs after it whatever the values.
AnimationFrame ==
  \E id \in pendingFrames :
    LET running == pendingFrames \ {id}
        again == requestAnimationFrame(running, animationFrameRef)
    IN  /\ UNCHANGED <<targetZoom, targetPan>>
        /\ IF zoomDone /\ panDone
             THEN /\ zoomLevel' = targetZoom
                  /\ panOffset' = targetPan
                  /\ isAnimating' = FALSE
                  /\ EffectAfter(running, animationFrameRef, EffectRuns)
             ELSE /\ zoomLevel' = Lerp(zoomLevel, targetZoom)
                  /\ panOffset' = [x |-> Lerp(panOffset.x, targetPan.x),
                                   y |-> Lerp(panOffset.y, targetPan.y)]
                  /\ UNCHANGED isAnimating
                  /\ EffectAfter(again.pending, again.ref, TRUE)
        /\ History("frame", Null, <<>>)
        /\ UNCHANGED <<viewVars, gridVars, geomVars, storeVars, selVars, dragVars, mapVars, anchor>>

InitCam ==
  /\ gridWidth = DragGridW /\ gridHeight = DragGridH
  /\ hexes = DragCampaign
  /\ past = <<>> /\ future = <<>>
  /\ nextId = 3
  /\ selectedCoordinate \in {Null, Coord(1, 0)}
  /\ selectedMarker = Null
  /\ GeomIdle /\ CamAtRest /\ DragIdle /\ MapIdle /\ HistIdle /\ ViewIdle

NextCam ==
  \/ Wheel \/ zoomIn \/ zoomOut \/ resetZoom \/ handleZoomSliderChange \/ PanKey
  \/ AnimationFrame

SpecCam == InitCam /\ [][NextCam]_vars

(***************************************************************************)
(* Claims about the camera (checked under SpecCam).                        *)
(***************************************************************************)
ZoomInputs == {"wheel", "zoomIn", "zoomOut", "slider"}

\* C9. Zoom toward the anchor: every input that sets a new zoom target also
\* sets the pan target, in the same step, to anchorScreen - anchorWorld *
\* newZoom: for a selected cell the pan that puts its centre at the centre of
\* the viewport, and otherwise the pan that keeps the world point under the
\* pointer where it is.
C9_ZoomTowardAnchor ==
  [][ (lastEvent' \in ZoomInputs /\ targetZoom' # targetZoom) =>
        IF selectedCoordinate # Null
          THEN targetPan' = PanCentredOn(selectedCoordinate, targetZoom')
          ELSE \E cursor \in WheelPoints :
                 /\ anchor' # Null => cursor = anchor'.screen
                 /\ targetPan' = PanKeeping(cursor, targetPan, targetZoom, targetZoom') ]_vars

\* Where the world point that was under the wheel's pointer position is
\* displayed now, in pan units: (screen - pan0) / zoom0 * zoomLevel + panOffset.
ShownAt(screen, pan0, zoom0, pan) ==
  LET scaled == (screen * PanUnit - pan0) * (zoomLevel \div ZoomGrain)
  IN  pan + (scaled \div zoom0) * ZoomGrain + RoundDiv((scaled % zoom0) * ZoomGrain, zoom0)

Converged == zoomLevel = targetZoom /\ panOffset = targetPan

\* One pixel.
Epsilon == PanUnit

\* C10. Camera convergence: after a wheel zoom toward pointer position P with
\* no cell selected, issued in any camera state, once zoom and pan have
\* converged to their targets the world point that was displayed under P at
\* the wheel event is displayed under P again (within a pixel).
C10_CameraConvergence ==
  (anchor # Null /\ Converged) =>
    /\ Abs(ShownAt(anchor.screen.x, anchor.pan.x, anchor.zoom, panOffset.x)
             - anchor.screen.x * PanUnit) <= Epsilon
    /\ Abs(ShownAt(anchor.screen.y, anchor.pan.y, anchor.zoom, panOffset.y)
             - anchor.screen.y * PanUnit) <= Epsilon

\* A wheel toward the pointer has converged.
WheelConverged == anchor # Null /\ Converged /\ ~rafScheduled

\* Zoom targets stay multiples of ZoomGrain.
ZoomTargetsOnGrain == targetZoom % ZoomGrain = 0

\* The browser runs a requested animation frame callback at its next repaint.
\* The animation does not look at the selection, so the fair camera starts
\* with no cell selected.
InitCamFair == InitCam /\ selectedCoordinate = Null

SpecCamFair == InitCamFair /\ [][NextCam]_vars /\ WF_vars(AnimationFrame)

Approaches(value, next, target) ==
  /\ Abs(target - next) <= Abs(target - value)
  /\ (target >= value) => (next >= value /\ next <= target)
  /\ (target <= value) => (next <= value /\ next >= target)

\* C12. Monotone convergence: on every animation tick (the targets are then
\* unchanged) the distances of the current zoom, pan x and pan y to their
\* targets do not increase and the current value never passes its target; a
\* tick moves each by the fraction ZOOM_ANIMATION_SPEED of what remains, and
\* the last one, taken within the snap thresholds, lands on the targets.
C12_MonotoneConvergence ==
  [][ lastEvent' = "frame" =>
        /\ UNCHANGED <<targetZoom, targetPan>>
        /\ Approaches(zoomLevel, zoomLevel', targetZoom)
        /\ Approaches(panOffset.x, panOffset'.x, targetPan.x)
        /\ Approaches(panOffset.y, panOffset'.y, targetPan.y)
        /\ IF zoomDone /\ panDone
             THEN zoomLevel' = targetZoom /\ panOffset' = targetPan
             ELSE /\ (zoomLevel' - zoomLevel) * ZOOM_ANIMATION_SPEED.den
                       - (targetZoom - zoomLevel) * ZOOM_ANIMATION_SPEED.num
                       \in -ZOOM_ANIMATION_SPEED.den .. ZOOM_ANIMATION_SPEED.den
                  /\ (panOffset'.x - panOffset.x) * ZOOM_ANIMATION_SPEED.den
                       - (targetPan.x - panOffset.x) * ZOOM_ANIMATION_SPEED.num
                       \in -ZOOM_ANIMATION_SPEED.den .. ZOOM_ANIMATION_SPEED.den ]_vars

\* A tick has moved zoom and pan, and all three are still on their way.
C12_Witness ==
  /\ lastEvent = "frame" /\ rafScheduled
  /\ zoomLevel # targetZoom /\ zoomLevel # ZoomUnit
  /\ panOffset.x # targetPan.x /\ panOffset.y # targetPan.y /\ panOffset.x # 0

\* C13. Zoom bounds: after any sequence of wheel, keyboard zoom, slider and
\* reset inputs and animation ticks, the zoom target and the current zoom
\* both lie in [MIN_ZOOM, MAX_ZOOM].
C13_ZoomBounds ==
  /\ MIN_ZOOM <= targetZoom /\ targetZoom <= MAX_ZOOM
  /\ MIN_ZOOM <= zoomLevel /\ zoomLevel <= MAX_ZOOM

\* A zoom in (or out) asked for at the upper (lower) bound left the target there.
C13_Witness ==
  \/ lastEvent \in {"zoomIn", "wheel"} /\ targetZoom = MAX_ZOOM
  \/ lastEvent \in {"zoomOut", "wheel"} /\ targetZoom = MIN_ZOOM

\* C14. One tick at a time: at most one animation callback is pending in any
\* state; a tick leaves one pending exactly when it found the camera outside
\* the snap thresholds; and an input that re-runs the effect while a callback
\* is pending leaves one callback pending, the one it requested.
C14_OneTickAtATime ==
  /\ [](Cardinality(pendingFrames) <= 1)
  /\ [][ lastEvent' = "frame" => (rafScheduled' <=> ~(zoomDone /\ panDone)) ]_vars
  /\ [][ (lastEvent' # "frame" /\ rafScheduled /\ EffectRuns) =>
           /\ pendingFrames' = {animationFrameRef'}
           /\ pendingFrames' # pendingFrames ]_vars

\* An input arrived while a callback was pending: that one was cancelled and
\* another requested.
C14_Witness ==
  /\ lastEvent \in {"wheel", "slider", "panKey", "reset"}
  /\ gestures = 2 /\ ~Converged
  /\ pendingFrames = {2} /\ animationFrameRef = 2

\* C15. Last writer wins: an animation tick never changes a target, so the
\* targets are those of the most recent input; and when inputs stop, the
\* camera converges to them and stays there, whether or not the last input
\* arrived while an earlier animation was in progress.
C15_LastWriterWins ==
  /\ [][ lastEvent' = "frame" => UNCHANGED <<targetZoom, targetPan>> ]_vars
  /\ [][ (lastEvent' = "slider" /\ ~Converged) => targetZoom' \in SliderValues ]_vars
  /\ [][ (lastEvent' = "reset" /\ ~Converged) =>
           (targetZoom' = ZoomUnit /\ targetPan' = [x |-> 0, y |-> 0]) ]_vars
  /\ <>[](Converged /\ ~rafScheduled)

\* A wheel input arrived in the middle of an animation (the zoom then
\* displayed was between two targets) and the camera has converged to the
\* wheel's targets.
C15_Witness ==
  /\ anchor # Null /\ anchor.zoom % ZoomGrain # 0
  /\ Converged /\ ~rafScheduled /\ lastEvent = "frame"

(***************************************************************************)
(* The drag machine with its drop timer run by the browser: the pointer    *)
(* handlers and the timer, without undo and redo.                          *)
(***************************************************************************)
NextDrop ==
  \/ MouseDownOnMarker \/ MouseMoveOnMarker \/ MouseUpOnMarker \/ MouseLeave
  \/ DropTimer

\* A timeout that is set and not cleared fires.
SpecDropFair == Init /\ [][NextDrop]_vars /\ WF_vars(DropTimer)

(***************************************************************************)
(* Claims about the drag machine's notifications, state and timer.         *)
(***************************************************************************)
\* How many times the handler that ran last invoked a callback.
TimesInvoked(invoked, name) == Cardinality({ i \in 1 .. Len(invoked) : invoked[i] = name })

C18_DragStateValidity ==
  /\ drag.phase \in {"idle", "pending", "dragging", "dropping"}
  /\ drag.phase = "idle" =>
       (drag.marker = Null /\ drag.sourceHex = Null /\ drag.currentPosition = Null)
  /\ drag.phase # "idle" =>
       (drag.marker # Null /\ drag.sourceHex # Null /\ drag.currentPosition # Null)

\* The drop animation of a marker dragged to another point.
C18_Witness ==
  /\ drag.phase = "dropping" /\ drag.marker # Null /\ drag.sourceHex = Coord(0, 0)
  /\ drag.currentPosition = Screen(45, 60)

\* C19. Tilt bound: the tilt angle lies in [-MAX_TILT, MAX_TILT]; while
\* Dragging it is clamp(v, +-MAX_VELOCITY_FOR_TILT) / MAX_VELOCITY_FOR_TILT *
\* MAX_TILT for the smoothed horizontal velocity v; in Idle, Pending and
\* Dropping it is 0.
C19_TiltBound ==
  /\ -MAX_TILT * TiltUnit <= drag.tiltAngle /\ drag.tiltAngle <= MAX_TILT * TiltUnit
  /\ drag.phase = "dragging" =>
       drag.tiltAngle
         = (Clamp(-MAX_VELOCITY_FOR_TILT, velocityRef.velocity, MAX_VELOCITY_FOR_TILT)
              * MAX_TILT * TiltUnit) \div MAX_VELOCITY_FOR_TILT
  /\ drag.phase # "dragging" => drag.tiltAngle = 0

\* A fast drag to the right, at full tilt, and a slow one, short of it.
C19_Witness ==
  /\ drag.phase = "dragging"
  /\ velocityRef.velocity > MAX_VELOCITY_FOR_TILT
  /\ drag.tiltAngle = MAX_TILT * TiltUnit

\* C20. Dropping settles: while the phase is Dropping the drop timeout is
\* pending; when it fires the phase becomes Idle; and from Dropping the
\* machine reaches Idle unless a press starts another gesture first, so it
\* never stays in Dropping forever.
C20_DroppingSettles ==
  /\ [](drag.phase = "dropping" => dropTimer)
  /\ [][ lastEvent' = "timer" => (drag.phase = "dropping" /\ drag' = IdleDrag /\ ~dropTimer') ]_vars
  /\ (drag.phase = "dropping") ~> (drag.phase = "idle" \/ lastEvent = "press")

\* The timeout fired after moves that arrived during the drop animation.
C20_Witness ==
  /\ lastEvent = "timer" /\ prevPhase = "dropping" /\ drag = IdleDrag /\ ~dropTimer
  /\ moves = MaxMoves

(***************************************************************************)
(* useMarkerDrag on its own: the four functions it returns, called in any  *)
(* order and in any phase, and its drop timeout.                           *)
(***************************************************************************)
HookFrame ==
  UNCHANGED <<viewVars, gridVars, geomVars, storeVars, camVars, selVars, mapVars>>

HookStartDragAt(marker, hexCoord, p) ==
  /\ gestures < MaxGestures
  /\ drag' = startDrag(marker, hexCoord, p)
  /\ DropEffect
  /\ dragStartRef' = p
  /\ velocityRef' = [lastX |-> p.x, velocity |-> 0]
  /\ moves' = 0
  /\ gestures' = gestures + 1
  /\ History("startDrag", Null, <<>>)
  /\ HookFrame

HookStartDrag ==
  \E marker \in {Marker1, Marker2}, hexCoord \in GridCells(DragGridW, DragGridH),
     p \in DragPoints :
    HookStartDragAt(marker, hexCoord, p)

HookUpdateDragAt(p, dt) ==
  /\ moves < MaxMoves
  /\ LET newRef == IF SamplesVelocity(drag, dragStartRef, p)
                      THEN updateVelocity(velocityRef, p.x, dt)
                      ELSE velocityRef
     IN  /\ drag' = updateDrag(drag, dragStartRef, newRef.velocity, p)
         /\ DropEffect
         /\ velocityRef' = newRef
         /\ History("updateDrag", Null,
                    IF StartsDragging(drag, dragStartRef, p)
                      THEN <<"onDragStart", "onPickup">> ELSE <<>>)
  /\ moves' = moves + 1
  /\ UNCHANGED <<dragStartRef, gestures>>
  /\ HookFrame

HookUpdateDrag == \E p \in DragPoints, dt \in FrameTimes : HookUpdateDragAt(p, dt)

HookEndDrag ==
  \E targetHex \in GridCells(DragGridW, DragGridH) \cup {Null} :
    /\ drag' = endDrag(drag)
    /\ DropEffect
    /\ History("endDrag", targetHex, endDragCalls(drag, targetHex, <<>>))
    /\ UNCHANGED <<dragStartRef, velocityRef, moves, gestures>>
    /\ HookFrame

HookCancelDrag ==
  /\ drag' = cancelDrag
  /\ DropEffect
  /\ dragStartRef' = Null
  /\ History("cancelDrag", Null, <<>>)
  /\ UNCHANGED <<velocityRef, moves, gestures>>
  /\ HookFrame

NextHook == HookStartDrag \/ HookUpdateDrag \/ HookEndDrag \/ HookCancelDrag \/ DropTimer

SpecHook == Init /\ [][NextHook]_vars

\* C21. Release with no active gesture: endDrag called while the phase is
\* Idle leaves the drag state (and the hook's refs and timeout) as they were
\* and invokes none of onDragEnd, onDrop, onPickup.
C21_ReleaseWhenIdle ==
  [][ (lastEvent' = "endDrag" /\ drag.phase = "idle") =>
        /\ drag' = drag
        /\ UNCHANGED <<dragStartRef, velocityRef, dropTimer>>
        /\ calls' = <<>> ]_vars

\* endDrag was called over a cell after a gesture had ended, the phase idle.
C21_Witness ==
  /\ lastEvent = "endDrag" /\ prevPhase = "idle" /\ lastRelease = Coord(0, 1)
  /\ gestures = 1 /\ moves = MaxMoves
  /\ drag = IdleDrag /\ calls = <<>>

\* C22. Release outside the grid: a release at a point for which coordinateAt
\* returns null invokes neither moveMarker nor moveMarkerToPosition and
\* leaves every cell, and the undo and redo stacks, as they were: the dragged
\* marker stays in its source cell with its position unchanged.
C22_ReleaseOutsideGrid ==
  [][ (lastEvent' = "release" /\ lastRelease' = Null) =>
        /\ ~\E i \in 1 .. Len(calls') : calls'[i] \in {"moveMarker", "moveMarkerToPosition"}
        /\ UNCHANGED <<hexes, past, future>> ]_vars

\* A marker dragged off the grid and released there.
C22_Witness ==
  /\ lastEvent = "release" /\ prevPhase = "dragging" /\ lastRelease = Null
  /\ drag.currentPosition = Screen(200, 200)
  /\ calls = <<"onDrop", "onDragEnd">>
  /\ FindMarker(MarkersAt(hexes, drag.sourceHex), drag.marker.id) = drag.marker

(***************************************************************************)
(* Level of detail: HexGrid's LOD_LEVELS table and getLOD.  Zoom bounds    *)
(* are in 1/ZoomUnit; sizes and offsets are world pixels.  borderWidth and *)
(* coordOpacity only style a stroke and a fill and are left out.           *)
(***************************************************************************)
LODConfig(minZoom, maxZoom, shown, sizes, offsets) ==
  [minZoom |-> minZoom, maxZoom |-> maxZoom,
   showBorders |-> "borders" \in shown,
   showStatusDot |-> "statusDot" \in shown,
   showIndicators |-> "indicators" \in shown,
   showIndicatorLetters |-> "indicatorLetters" \in shown,
   showCountBadges |-> "countBadges" \in shown,
   showCoordLabels |-> "coordLabels" \in shown,
   showTerrainLabels |-> "terrainLabels" \in shown,
   showContentTitles |-> "contentTitles" \in shown,
   showMarkers |-> "markers" \in shown,
   statusDotRadius |-> sizes[1], indicatorRadius |-> sizes[2], indicatorFont |-> sizes[3],
   indicatorSpacing |-> sizes[4], badgeRadius |-> sizes[5], badgeFont |-> sizes[6],
   coordFont |-> sizes[7], terrainFont |-> sizes[8], contentTitleFont |-> sizes[9],
   indicatorY |-> offsets[1], terrainY |-> offsets[2], contentTitleY |-> offsets[3],
   coordY |-> offsets[4]]

\* Zoom z/100 in 1/ZoomUnit.
Percent(z) == z * (ZoomUnit \div 100)

\* A table whose level 3 reaches into level 4.
LOD_LEVELS_Overlapping ==
  << LODConfig(Percent(15), Percent(25), {"markers"},
               <<0, 0, 0, 0, 0, 0, 0, 0, 0>>, <<0, 0, 0, 0>>),
     LODConfig(Percent(25), Percent(40), {"borders", "markers"},
               <<0, 0, 0, 0, 0, 0, 0, 0, 0>>, <<0, 0, 0, 0>>),
     LODConfig(Percent(40), Percent(60), {"borders", "statusDot", "markers"},
               <<3, 0, 0, 0, 0, 0, 0, 0, 0>>, <<0, 0, 0, 0>>),
     LODConfig(Percent(60), Percent(90), {"borders", "statusDot", "indicators", "markers"},
               <<3, 2, 0, 6, 0, 0, 0, 0, 0>>, <<-16, 0, 0, 0>>),
     LODConfig(Percent(80), Percent(501),
               {"borders", "statusDot", "indicators", "coordLabels", "markers"},
               <<3, 2, 0, 6, 0, 0, 6, 0, 0>>, <<-16, 0, 0, 18>>) >>

\* A table that shows terrain labels one level early.
LOD_LEVELS_TerrainEarly ==
  << LODConfig(Percent(15), Percent(100), {"borders", "markers"},
               <<0, 0, 0, 0, 0, 0, 0, 0, 0>>, <<0, 0, 0, 0>>),
     LODConfig(Percent(100), Percent(501),
               {"borders", "statusDot", "indicators", "countBadges", "coordLabels",
                "terrainLabels", "markers"},
               <<4, 3, 0, 8, 3, 4, 5, 6, 0>>, <<-15, 6, 0, 18>>) >>

LOD_LEVELS ==
  << \* Level 0: Minimal
     LODConfig(Percent(15), Percent(25), {"markers"},
               <<0, 0, 0, 0, 0, 0, 0, 0, 0>>, <<0, 0, 0, 0>>),
     \* Level 1: Overview
     LODConfig(Percent(25), Percent(40), {"borders", "markers"},
               <<0, 0, 0, 0, 0, 0, 0, 0, 0>>, <<0, 0, 0, 0>>),
     \* Level 2: Region
     LODConfig(Percent(40), Percent(60), {"borders", "statusDot", "markers"},
               <<3, 0, 0, 0, 0, 0, 0, 0, 0>>, <<0, 0, 0, 0>>),
     \* Level 3: Area
     LODConfig(Percent(60), Percent(80), {"borders", "statusDot", "indicators", "markers"},
               <<3, 2, 0, 6, 0, 0, 0, 0, 0>>, <<-16, 0, 0, 0>>),
     \* Level 4: Standard
     LODConfig(Percent(80), Percent(100),
               {"borders", "statusDot", "indicators", "coordLabels", "markers"},
               <<3, 2, 0, 6, 0, 0, 6, 0, 0>>, <<-16, 0, 0, 18>>),
     \* Level 5: Detailed
     LODConfig(Percent(100), Percent(150),
               {"borders", "statusDot", "indicators", "countBadges", "coordLabels", "markers"},
               <<4, 3, 0, 8, 3, 4, 5, 0, 0>>, <<-15, 0, 0, 18>>),
     \* Level 6: Close
     LODConfig(Percent(150), Percent(250),
               {"borders", "statusDot", "indicators", "countBadges", "coordLabels",
                "terrainLabels", "markers"},
               <<4, 3, 0, 8, 3, 4, 4, 6, 0>>, <<-15, 6, 0, 20>>),
     \* Level 7: Immersive
     LODConfig(Percent(250), Percent(501),
               {"borders", "statusDot", "indicators", "terrainLabels", "contentTitles",
                "markers"},
               <<3, 2, 0, 6, 0, 0, 0, 4, 3>>, <<-18, 4, 14, 0>>) >>

\* zoomLevel >= level.minZoom && zoomLevel < level.maxZoom
InLevel(zoom, level) == zoom >= level.minZoom /\ zoom < level.maxZoom

\* A getLOD that falls back to the lowest level.
getLODFallingBackToLowest(zoom) ==
  LET hits == { i \in 1 .. Len(LOD_LEVELS) : InLevel(zoom, LOD_LEVELS[i]) }
  IN  IF hits = {} THEN LOD_LEVELS[1]
      ELSE LOD_LEVELS[CHOOSE i \in hits : \A j \in hits : i <= j]

\* getLOD: the first level whose range holds the zoom, else the last level.
getLOD(zoom) ==
  LET hits == { i \in 1 .. Len(LOD_LEVELS) : InLevel(zoom, LOD_LEVELS[i]) }
  IN  IF hits = {} THEN LOD_LEVELS[Len(LOD_LEVELS)]
      ELSE LOD_LEVELS[CHOOSE i \in hits : \A j \in hits : i <= j]

(***************************************************************************)
(* getLOD on its own: it is handed one zoom level after another.           *)
(***************************************************************************)
MaxLodSample == 550      \* the zoom levels sampled are 0.00, 0.01, ... 5.50

LodSamples == { Percent(z) : z \in 0 .. MaxLodSample }

InitLod ==
  /\ gridWidth = 1 /\ gridHeight = 1
  /\ GeomIdle /\ StoreIdle /\ CamAtRest /\ SelIdle /\ DragIdle /\ MapIdle /\ HistIdle
  /\ RenderIdle /\ CacheIdle
  /\ lodZoom = zoomLevel
  /\ lod = getLOD(zoomLevel)

CallGetLOD ==
  /\ \E zoom \in LodSamples :
       /\ lodZoom' = zoom
       /\ lod' = getLOD(zoom)
  /\ UNCHANGED <<renderVars, cacheVars, gridVars, geomVars, storeVars, camVars, selVars,
                 dragVars, mapVars, histVars>>

NextLod == CallGetLOD

SpecLod == InitLod /\ [][NextLod]_vars

\* The position in the table of the row returned.
LevelIndex(level) == CHOOSE i \in 1 .. Len(LOD_LEVELS) : LOD_LEVELS[i] = level

TopLevel == LOD_LEVELS[Len(LOD_LEVELS)]

\* C25: getLOD returns the first row of the table whose range
\* minZoom <= zoom < maxZoom holds the zoom level; for a zoom level in no range
\* (at or above the top row's maxZoom, or below the lowest minZoom) it returns
\* the highest row.
C25_LodSelection ==
  /\ \A i \in 1 .. Len(LOD_LEVELS) :
       ( /\ LOD_LEVELS[i].minZoom <= lodZoom /\ lodZoom < LOD_LEVELS[i].maxZoom
         /\ \A j \in 1 .. (i - 1) :
              ~(LOD_LEVELS[j].minZoom <= lodZoom /\ lodZoom < LOD_LEVELS[j].maxZoom) )
       => lod = LOD_LEVELS[i]
  /\ lodZoom >= TopLevel.maxZoom => lod = TopLevel
  /\ lodZoom < LOD_LEVELS[1].minZoom => lod = TopLevel

\* A zoom level below the lowest range has been resolved, to the highest row.
C25_Witness == lodZoom < LOD_LEVELS[1].minZoom /\ lod = TopLevel /\ LevelIndex(lod) = 8

\* The range boundaries between rows that lie in (from, to].
BoundariesCrossed(from, to) ==
  { i \in 2 .. Len(LOD_LEVELS) : from < LOD_LEVELS[i].minZoom /\ LOD_LEVELS[i].minZoom <= to }

\* C26: the ranges of the table are contiguous and non-overlapping over
\* [0.15, 5.0]; and from a zoom sample to any higher one within [0.15, 5.0] the
\* index of the selected row does not decrease, advances by at most one per
\* range boundary crossed, and the selected row's range contains the sample.
C26_LodMonotone ==
  /\ [](/\ LOD_LEVELS[1].minZoom = MIN_ZOOM
        /\ TopLevel.maxZoom > MAX_ZOOM
        /\ \A i \in 1 .. Len(LOD_LEVELS) : LOD_LEVELS[i].minZoom < LOD_LEVELS[i].maxZoom
        /\ \A i \in 1 .. (Len(LOD_LEVELS) - 1) :
             LOD_LEVELS[i].maxZoom = LOD_LEVELS[i + 1].minZoom
        /\ (MIN_ZOOM <= lodZoom /\ lodZoom <= MAX_ZOOM)
             => /\ lod.minZoom <= lodZoom /\ lodZoom < lod.maxZoom
                /\ \A i \in 1 .. Len(LOD_LEVELS) :
                     (LOD_LEVELS[i].minZoom <= lodZoom /\ lodZoom < LOD_LEVELS[i].maxZoom)
                       => LOD_LEVELS[i] = lod)
  /\ [][ (MIN_ZOOM <= lodZoom /\ lodZoom < lodZoom' /\ lodZoom' <= MAX_ZOOM)
           => /\ LevelIndex(lod) <= LevelIndex(lod')
              /\ LevelIndex(lod') - LevelIndex(lod)
                   <= Cardinality(BoundariesCrossed(lodZoom, lodZoom')) ]_vars

\* The top of the zoom range has been sampled: seven boundaries above the bottom.
C26_Witness ==
  /\ lodZoom = MAX_ZOOM /\ LevelIndex(lod) = 8
  /\ Cardinality(BoundariesCrossed(MIN_ZOOM, lodZoom)) = 7

(***************************************************************************)
(* The render pipeline: HexGrid's draw, as the sequence of drawing         *)
(* operations it issues for one frame.  An operation names what is drawn   *)
(* (op), for which cell (coord) and of what (a content category, a marker  *)
(* id, a line of text).  Colours, fonts and the canvas transform are left  *)
(* out.  draw is a dependency of the effect that calls it, so it runs      *)
(* after every change of the state it reads, and the canvas and the two    *)
(* position refs always hold what the last state gives.                    *)
(***************************************************************************)
CONTENT_CATEGORIES == <<"locations", "encounters", "npcs", "treasures", "clues">>

Item(title, isResolved) == [title |-> title, isResolved |-> isResolved]

\* A hex as createHex leaves it: no terrain, undiscovered, no content.
EmptyContent ==
  [terrain |-> "", status |-> "undiscovered", locations |-> <<>>, encounters |-> <<>>,
   npcs |-> <<>>, treasures |-> <<>>, clues |-> <<>>]

\* getHex(coord): the cell's hex, or Null when the campaign has none.
getHex(coord) ==
  IF hexes[coord] = Null THEN Null
  ELSE [markers |-> hexes[coord].markers,
        terrain |-> hexContent[coord].terrain, status |-> hexContent[coord].status,
        locations |-> hexContent[coord].locations,
        encounters |-> hexContent[coord].encounters,
        npcs |-> hexContent[coord].npcs,
        treasures |-> hexContent[coord].treasures,
        clues |-> hexContent[coord].clues]

RECURSIVE Flatten(_)
Flatten(seqs) == IF seqs = <<>> THEN <<>> ELSE Head(seqs) \o Flatten(Tail(seqs))

\* getContentSummary: per category that has items, their number and how many
\* are unresolved.
getContentSummary(hex) ==
  LET unresolved(item) == ~item.isResolved
      summary(i) == [category |-> CONTENT_CATEGORIES[i],
                     total |-> Len(hex[CONTENT_CATEGORIES[i]]),
                     unresolved |-> Len(SelectSeq(hex[CONTENT_CATEGORIES[i]], unresolved))]
      nonEmpty(s) == s.total > 0
  IN  SelectSeq([i \in 1 .. Len(CONTENT_CATEGORIES) |-> summary(i)], nonEmpty)

Op(name, coord, of) == [op |-> name, coord |-> coord, of |-> of]

\* The cells in the order of draw's loops: columns outside, rows inside.
CellOrder ==
  [k \in 1 .. gridWidth * gridHeight |->
     Coord((k - 1) \div gridHeight, (k - 1) % gridHeight)]

\* The indicator row of one cell: where each indicator is drawn and how large.
IndicatorRow(coord, level) ==
  LET hex == getHex(coord)
      summary == IF hex = Null THEN <<>> ELSE getContentSummary(hex)
      centre == hexCenter(coord)
      \* startX = center.x - (length - 1) * indicatorSpacing / 2; every
      \* indicatorSpacing of the table is even
      startX == centre.x - ((Len(summary) - 1) * level.indicatorSpacing) \div 2
  IN  IF ~level.showIndicators THEN <<>>
      ELSE [i \in 1 .. Len(summary) |->
              [x |-> startX + (i - 1) * level.indicatorSpacing,
               y |-> SurdAdd(centre.y, Surd(level.indicatorY, 0)),
               radius |-> level.indicatorRadius, coord |-> coord,
               category |-> summary[i].category, total |-> summary[i].total]]

\* The content title lines of one cell: the titles of the first category
\* that has items, the last line giving way to "+N more" when they do not fit.
ContentTitleOps(coord, hex, level) ==
  LET withItems == { i \in 1 .. Len(CONTENT_CATEGORIES) : hex[CONTENT_CATEGORIES[i]] # <<>> }
      items == IF withItems = {} THEN <<>>
               ELSE hex[CONTENT_CATEGORIES[CHOOSE i \in withItems : \A j \in withItems : i <= j]]
      \* Math.max(1, Math.floor((26 - contentTitleY) / (contentTitleFont * 1.6)))
      fit == (10 * (26 - level.contentTitleY)) \div (16 * level.contentTitleFont)
      maxLines == IF fit < 1 THEN 1 ELSE fit
      itemsToShow == IF Len(items) > maxLines THEN maxLines - 1 ELSE Len(items)
  IN  [i \in 1 .. itemsToShow |-> Op("contentTitle", coord, items[i].title)]
      \o (IF Len(items) - itemsToShow > 0 /\ items # <<>>
            THEN <<Op("contentMore", coord, Len(items) - itemsToShow)>> ELSE <<>>)

\* Pass 1 for one cell.
CellOps(coord, level) ==
  LET hex == getHex(coord)
      isSelected == selectedCoordinate # Null /\ selectedCoordinate = coord
      row == IndicatorRow(coord, level)
      indicator(i) ==
        <<Op("indicator", coord, row[i].category)>>
        \o (IF level.showIndicatorLetters /\ level.indicatorFont > 0
              THEN <<Op("indicatorLetter", coord, row[i].category)>> ELSE <<>>)
        \o (IF level.showCountBadges /\ row[i].total > 1 /\ level.badgeRadius > 0
              THEN <<Op("countBadge", coord, row[i].category)>> ELSE <<>>)
  IN  <<Op("fill", coord, IF hex # Null /\ hex.terrain # "" THEN hex.terrain ELSE "")>>
      \o (IF level.showBorders \/ isSelected THEN <<Op("border", coord, isSelected)>> ELSE <<>>)
      \o (IF level.showStatusDot /\ hex # Null /\ hex.status # "undiscovered"
            THEN <<Op("statusDot", coord, hex.status)>> ELSE <<>>)
      \o Flatten([i \in 1 .. Len(row) |-> indicator(i)])
      \o (IF level.showTerrainLabels /\ hex # Null /\ hex.terrain # "" /\ level.terrainFont > 0
            THEN <<Op("terrainLabel", coord, hex.terrain)>> ELSE <<>>)
      \o (IF level.showContentTitles /\ hex # Null /\ level.contentTitleFont > 0
            THEN ContentTitleOps(coord, hex, level) ELSE <<>>)
      \o (IF level.showCoordLabels /\ level.coordFont > 0
            THEN <<Op("coordLabel", coord, coord)>> ELSE <<>>)

\* Pass 2 for one cell: renderMarkers draws a figurine for every position it
\* records, then "+N" when more than three markers have no position.
MarkerOps(coord) ==
  LET markers == MarkersOrEmpty(hexes[coord])
      noPos(m) == m.pos = Null
      drawn == renderMarkers(markers, coord, zoomLevel)
  IN  [i \in 1 .. Len(drawn) |-> Op("marker", coord, drawn[i].markerId)]
      \o (IF Len(SelectSeq(markers, noPos)) > 3
            THEN <<Op("markerOverflow", coord, Len(SelectSeq(markers, noPos)) - 3)>>
            ELSE <<>>)

\* The overlay: renderDraggingMarker at the pointer.
DraggingOverlay ==
  IF isDragging /\ drag.marker # Null /\ drag.currentPosition # Null
    THEN <<Op("draggingMarker", Null, drag.marker.id)>> ELSE <<>>

\* A draw that draws each cell's markers right after the cell's content.
drawCellByCell ==
  LET level == getLOD(zoomLevel)
  IN  <<Op("clear", Null, Null)>>
      \o Flatten([k \in 1 .. Len(CellOrder) |->
                    CellOps(CellOrder[k], level)
                    \o (IF level.showMarkers THEN MarkerOps(CellOrder[k]) ELSE <<>>)])
      \o DraggingOverlay

\* draw: the canvas is cleared, pass 1 draws every cell's content, pass 2
\* every cell's markers, and the overlay comes last.
draw ==
  LET level == getLOD(zoomLevel)
  IN  <<Op("clear", Null, Null)>>
      \o Flatten([k \in 1 .. Len(CellOrder) |-> CellOps(CellOrder[k], level)])
      \o (IF level.showMarkers
            THEN Flatten([k \in 1 .. Len(CellOrder) |-> MarkerOps(CellOrder[k])])
            ELSE <<>>)
      \o DraggingOverlay

\* indicatorPositionsRef.current after draw.
indicatorPositionsRef ==
  Flatten([k \in 1 .. Len(CellOrder) |-> IndicatorRow(CellOrder[k], getLOD(zoomLevel))])

\* markerPositionsRef.current after draw.
markerPositionsRef == IF getLOD(zoomLevel).showMarkers THEN MarkerPositions ELSE <<>>

(***************************************************************************)
(* HexGrid's pointer handlers off a marker gesture: the press that starts  *)
(* a potential map drag, the move that pans the map or hovers, and the     *)
(* release that ends a map drag or selects what was clicked.               *)
(***************************************************************************)
DRAG_THRESHOLD_EMPTY == 3
DRAG_THRESHOLD_HEX == 8

\* markerPositionsRef.current.find(...): the first recorded marker whose hit
\* radius holds the point, or Null.
hitMarker(world) ==
  LET mp == markerPositionsRef
      hits == { i \in 1 .. Len(mp) :
                  WithinRadius(DistSq(AsPoint(world), Point(mp[i].x, mp[i].y)), mp[i].radius) }
  IN  IF hits = {} THEN Null ELSE mp[CHOOSE i \in hits : \A j \in hits : i <= j]

\* distanceSquared <= (indicator.radius + 2)^2
WithinIndicator(world, indicator) ==
  SurdLeq(DistSq(AsPoint(world), Point(indicator.x, indicator.y)),
          Surd((indicator.radius + 2) * (indicator.radius + 2), 0))

\* indicatorPositionsRef.current.find(...): the first recorded indicator
\* whose radius and buffer hold the point, or Null.
hitIndicator(world) ==
  LET ip == indicatorPositionsRef
      hits == { i \in 1 .. Len(ip) : WithinIndicator(world, ip[i]) }
  IN  IF hits = {} THEN Null ELSE ip[CHOOSE i \in hits : \A j \in hits : i <= j]

\* handleMouseDown's hasContent
hasContent(hex) ==
  /\ hex # Null
  /\ \/ hex.terrain # ""
     \/ \E i \in 1 .. Len(CONTENT_CATEGORIES) : hex[CONTENT_CATEGORIES[i]] # <<>>

\* What a pointer event resolved.
NoTarget == [kind |-> "none"]
MarkerTarget(hit) == [kind |-> "marker", markerId |-> hit.markerId, coord |-> hit.hexCoord]
IndicatorTarget(hit) == [kind |-> "indicator", category |-> hit.category, coord |-> hit.coord]
CellTarget(coord) == [kind |-> "cell", coord |-> coord]

Resolved(event, screen, target) ==
  resolved' = [event |-> event, screen |-> screen,
               world |-> ScreenToWorld(screen, panOffset, zoomLevel), target |-> target]

\* selectHex of SelectionContext
selectHex(coord) ==
  /\ selectedCoordinate' = coord
  /\ selectedMarker' = Null

\* handleMouseDown off every marker: a potential map drag starts.
MouseDownOnMapAt(p) ==
  LET world == ScreenToWorld(p, panOffset, zoomLevel)
      hit == hitMarker(world)
      marker == IF hit = Null THEN Null
                ELSE FindMarker(MarkersOrEmpty(hexes[hit.hexCoord]), hit.markerId)
      coord == coordinateAt(AsPoint(world), gridWidth, gridHeight)
  IN  /\ gestures < MaxGestures
      /\ hit = Null \/ marker = Null
      /\ isPotentialDrag' = TRUE
      /\ dragMapStartRef' =
           [x |-> p.x, y |-> p.y, panX |-> panOffset.x, panY |-> panOffset.y,
            onActiveHex |-> IF coord = Null THEN FALSE ELSE hasContent(getHex(coord))]
      /\ gestures' = gestures + 1
      /\ Resolved("press", p, NoTarget)
      /\ History("pressMap", Null, <<>>)
      /\ UNCHANGED <<lodVars, cacheVars, hexContent, tooltip, gridVars, geomVars, storeVars,
                     camVars, selVars, drag, dragStartRef, velocityRef, dropTimer, moves,
                     isDraggingMap>>

\* distance > threshold, from the press point
BeyondMapThreshold(p) ==
  LET dx == p.x - dragMapStartRef.x
      dy == p.y - dragMapStartRef.y
      threshold == IF dragMapStartRef.onActiveHex THEN DRAG_THRESHOLD_HEX
                   ELSE DRAG_THRESHOLD_EMPTY
  IN  dx * dx + dy * dy > threshold * threshold

\* handleMouseMove with no marker gesture on.  The handler reads the
\* isDraggingMap of the render it was made in, so the move that crosses the
\* threshold sets the flag and the moves after it pan.
MouseMoveOnMapAt(p) ==
  LET world == ScreenToWorld(p, panOffset, zoomLevel)
      hit == hitIndicator(world)
  IN  /\ ~(isPending \/ isDragging)
      /\ IF isDraggingMap
           THEN /\ panOffset' = [x |-> dragMapStartRef.panX + (p.x - dragMapStartRef.x) * PanUnit,
                                 y |-> dragMapStartRef.panY + (p.y - dragMapStartRef.y) * PanUnit]
                /\ tooltip' = Null
                /\ Resolved("pan", p, NoTarget)
                /\ UNCHANGED isDraggingMap
           ELSE IF isPotentialDrag
             THEN /\ isDraggingMap' = BeyondMapThreshold(p)
                  /\ Resolved("pan", p, NoTarget)
                  /\ UNCHANGED <<panOffset, tooltip>>
             ELSE /\ tooltip' = IF hit # Null /\ getHex(hit.coord) # Null
                                  THEN [category |-> hit.category,
                                        items |-> getHex(hit.coord)[hit.category]]
                                  ELSE IF hit # Null THEN tooltip ELSE Null
                  /\ Resolved("hover", p, IF hit # Null THEN IndicatorTarget(hit) ELSE NoTarget)
                  /\ UNCHANGED <<panOffset, isDraggingMap>>
      /\ UNCHANGED <<zoomLevel, targetZoom, targetPan, isAnimating, anchor>>
      /\ EffectAfter(pendingFrames, animationFrameRef, isDraggingMap)
      /\ History("moveMap", Null, <<>>)
      /\ UNCHANGED <<lodVars, cacheVars, hexContent, gridVars, geomVars, storeVars, selVars,
                     dragVars, isPotentialDrag, dragMapStartRef>>

\* selectHexAtPosition: the marker under the point, else the cell.
selectHexAtPosition(p) ==
  LET world == ScreenToWorld(p, panOffset, zoomLevel)
      hit == hitMarker(world)
      coord == coordinateAt(AsPoint(world), gridWidth, gridHeight)
  IN  IF hit # Null
        THEN /\ selectMarker(hit.markerId, hit.hexCoord)
             /\ Resolved("click", p, MarkerTarget(hit))
             /\ History("click", Null, <<"selectMarker">>)
        ELSE IF coord # Null
          THEN /\ selectHex(coord)
               /\ Resolved("click", p, CellTarget(coord))
               /\ History("click", coord, <<"selectHex">>)
          ELSE /\ UNCHANGED selVars
               /\ Resolved("click", p, NoTarget)
               /\ History("click", Null, <<>>)

\* handleMouseUp with no marker gesture on: a click selects, a map drag
\* hands its pan to the camera's target.
MouseUpOnMapAt(p) ==
  /\ ~(isDragging \/ isPending)
  /\ IF isPotentialDrag /\ ~isDraggingMap
       THEN selectHexAtPosition(p)
       ELSE /\ UNCHANGED selVars
            /\ Resolved("release", p, NoTarget)
            /\ History("releaseMap", Null, <<>>)
  /\ targetPan' = IF isDraggingMap THEN panOffset ELSE targetPan
  /\ UNCHANGED <<zoomLevel, targetZoom, panOffset, isAnimating, anchor>>
  /\ EffectAfter(pendingFrames, animationFrameRef, isDraggingMap)
  /\ isPotentialDrag' = FALSE
  /\ isDraggingMap' = FALSE
  /\ UNCHANGED <<lodVars, cacheVars, hexContent, tooltip, gridVars, geomVars, storeVars,
                 dragVars, dragMapStartRef>>

(***************************************************************************)
(* The canvas under the pointer: a campaign with terrain, content and      *)
(* markers, shown at one of several zoom levels with the camera at rest,   *)
(* and every pointer handler of HexGrid.                                   *)
(***************************************************************************)
\* Zoom levels of the Region, Detailed and Immersive rows.
RenderZooms == { Percent(50), Percent(120), Percent(300) }

\* Where the pointer goes.  At zoom 1.2: on the marker of cell (0,0); on the
\* marker of cell (0,1) where it covers that cell's indicator; on the first
\* indicator of cell (0,0); on cell (0,1) clear of both; off the grid.
RenderPoints ==
  { Screen(36, 34), Screen(36, 82), Screen(31, 18), Screen(54, 72), Screen(240, 240) }

\* Where the marker of cell (0,0) is on the screen at each of RenderZooms.
RenderPressPoints == { Screen(15, 14), Screen(36, 34), Screen(90, 84) }

\* A party marker dropped on the indicator row of cell (0,1).
Marker3 == createMarker(3, "party", "Scouts", Point(30, Surd(70, 0)))

Crowd == [i \in 1 .. 4 |-> createMarker(3 + i, "player-2", Undefined, Null)]

\* Cell (0,0): an unplaced marker; (0,1): the placed one; (1,0): no hex;
\* (1,1): more unplaced markers than a row shows.
RenderCampaign ==
  [c \in GridCells(DragGridW, DragGridH) |->
     IF c = Coord(0, 0) THEN HexWith(<<Marker1>>)
     ELSE IF c = Coord(0, 1) THEN HexWith(<<Marker3>>)
     ELSE IF c = Coord(1, 1) THEN HexWith(Crowd) ELSE Null]

RenderContent ==
  [c \in GridCells(DragGridW, DragGridH) |->
     IF c = Coord(0, 0)
       THEN [EmptyContent EXCEPT !.terrain = "Forest", !.status = "discovered",
                                 !.locations = <<Item("Old mill", FALSE), Item("Ford", TRUE)>>,
                                 !.npcs = <<Item("Miller", FALSE)>>]
     ELSE IF c = Coord(0, 1)
       THEN [EmptyContent EXCEPT !.status = "cleared",
                                 !.encounters = <<Item("Wolves", TRUE), Item("Bandits", TRUE),
                                                  Item("Toll", TRUE)>>]
     ELSE EmptyContent]

InitRender ==
  /\ gridWidth = DragGridW /\ gridHeight = DragGridH
  /\ hexes = RenderCampaign
  /\ hexContent = RenderContent
  /\ past = <<>> /\ future = <<>>
  /\ nextId = 8
  /\ zoomLevel \in RenderZooms
  /\ targetZoom = zoomLevel
  /\ panOffset = [x |-> 0, y |-> 0] /\ targetPan = [x |-> 0, y |-> 0]
  /\ isAnimating = FALSE /\ pendingFrames = {} /\ animationFrameRef = 0 /\ anchor = Null
  /\ drag = IdleDrag /\ dragStartRef = Null
  /\ velocityRef = [lastX |-> 0, velocity |-> 0]
  /\ dropTimer = FALSE
  /\ moves = 0
  /\ gestures = MaxGestures - 1          \* one press is followed
  /\ GeomIdle /\ SelIdle /\ MapIdle /\ HistIdle /\ LodIdle /\ CacheIdle
  /\ tooltip = Null /\ resolved = Null

handleMouseDown == \E p \in RenderPoints : MouseDownOnMarkerAt(p) \/ MouseDownOnMapAt(p)

MouseMoveOnMap == \E p \in RenderPoints : MouseMoveOnMapAt(p)

MouseUpOnMap == \E p \in RenderPoints : MouseUpOnMapAt(p)

\* Marker gestures on the canvas, followed from one press.
RenderMouseDown == \E p \in RenderPressPoints : MouseDownOnMarkerAt(p)

NextRender ==
  \/ RenderMouseDown \/ MouseMoveOnMarker \/ MouseUpOnMarker \/ MouseLeave \/ DropTimer

SpecRender == InitRender /\ [][NextRender]_vars

\* Presses, clicks and hovers: the pointer does not move while it holds a
\* marker.
InitHit ==
  /\ gridWidth = DragGridW /\ gridHeight = DragGridH
  /\ hexes = RenderCampaign
  /\ hexContent = RenderContent
  /\ past = <<>> /\ future = <<>>
  /\ nextId = 8
  /\ zoomLevel \in RenderZooms
  /\ targetZoom = zoomLevel
  /\ panOffset = [x |-> 0, y |-> 0] /\ targetPan = [x |-> 0, y |-> 0]
  /\ isAnimating = FALSE /\ pendingFrames = {} /\ animationFrameRef = 0 /\ anchor = Null
  /\ drag = IdleDrag /\ dragStartRef = Null
  /\ velocityRef = [lastX |-> 0, velocity |-> 0]
  /\ dropTimer = FALSE
  /\ moves = 0
  /\ gestures = MaxGestures - 1          \* one press is followed
  /\ GeomIdle /\ SelIdle /\ MapIdle /\ HistIdle /\ LodIdle /\ CacheIdle
  /\ tooltip = Null /\ resolved = Null

NextHit ==
  \/ handleMouseDown \/ MouseMoveOnMap \/ MouseUpOnMarker \/ MouseUpOnMap \/ MouseLeave

SpecHit == InitHit /\ [][NextHit]_vars

(***************************************************************************)
(* Claims about the render pipeline (checked under SpecRender).            *)
(***************************************************************************)
CellContentOps ==
  {"fill", "border", "statusDot", "indicator", "indicatorLetter", "countBadge",
   "terrainLabel", "contentTitle", "contentMore", "coordLabel"}

MarkerDrawOps == {"marker", "markerOverflow"}

\* C23. Render ordering: in every frame each cell of the grid gets its
\* content drawn (its fill at least), every cell-content operation of every
\* cell comes before the first marker operation, and the dragged-marker
\* overlay comes after every per-cell marker operation (and after all cell
\* content).
C23_RenderOrdering ==
  LET ops == draw
  IN  /\ \A c \in GridCells(gridWidth, gridHeight) :
           \E i \in 1 .. Len(ops) : ops[i].op = "fill" /\ ops[i].coord = c
      /\ \A i, j \in 1 .. Len(ops) :
           (ops[i].op \in CellContentOps /\ ops[j].op \in MarkerDrawOps) => i < j
      /\ \A i, j \in 1 .. Len(ops) :
           (ops[i].op \in CellContentOps \cup MarkerDrawOps /\ ops[j].op = "draggingMarker")
             => i < j

\* A frame with a marker of cell (0,0), content of the later cell (0,1),
\* markers of the last cell and the overlay of a drag in progress.
C23_Witness ==
  LET ops == draw
  IN  /\ drag.phase = "dragging"
      /\ \E i, j, k, l \in 1 .. Len(ops) :
           /\ ops[i].op = "marker" /\ ops[i].coord = Coord(0, 0)
           /\ ops[j].op = "indicator" /\ ops[j].coord = Coord(0, 1)
           /\ ops[k].op = "markerOverflow" /\ ops[k].coord = Coord(1, 1)
           /\ ops[l].op = "draggingMarker"

(***************************************************************************)
(* Claims about hit testing (checked under SpecHit).                       *)
(***************************************************************************)
\* What the priority marker > indicator > cell gives for a world point.
HighestPriority(world) ==
  IF hitMarker(world) # Null THEN "marker"
  ELSE IF hitIndicator(world) # Null THEN "indicator"
  ELSE IF coordinateAt(AsPoint(world), gridWidth, gridHeight) # Null THEN "cell"
  ELSE "none"

\* A press within a marker's hit radius starts a marker gesture and neither a
\* potential map drag nor a selection; any other press starts no gesture.
PressOnMarkerStartsGesture ==
  [][ /\ lastEvent' = "pressMap" => hitMarker(resolved'.world) = Null
      /\ lastEvent' = "press" =>
           /\ hitMarker(ScreenToWorld(dragStartRef', panOffset, zoomLevel)) # Null
           /\ drag'.phase = "pending"
           /\ UNCHANGED <<mapVars, selVars, panOffset, targetPan>> ]_vars

\* C24. Hit priority: a pointer position resolves to a marker whenever it is
\* within a rendered marker's hit radius, otherwise to a content indicator
\* when it is within an indicator's radius plus buffer, otherwise to the cell
\* under it; so a press within a marker's hit radius starts a marker gesture
\* and never a map pan or a cell selection.
C24_HitPriority ==
  /\ PressOnMarkerStartsGesture
  /\ [][ (resolved' # resolved /\ resolved'.event \in {"click", "hover"}
            /\ resolved'.target.kind # "none")
           => resolved'.target.kind = HighestPriority(resolved'.world) ]_vars

(***************************************************************************)
(* Scenario A: a 10x10 grid whose cell (3,4) has terrain "Forest", shown   *)
(* at zoom 1.2; the zoom slider is moved and the camera follows.           *)
(***************************************************************************)
ScenarioGrid == 10

ScenarioCell == Coord(3, 4)

ScenarioZooms == { Percent(120), Percent(180) }

InitScenario ==
  /\ gridWidth = ScenarioGrid /\ gridHeight = ScenarioGrid
  /\ hexes = [c \in GridCells(ScenarioGrid, ScenarioGrid) |->
                IF c = ScenarioCell THEN HexWith(<<>>) ELSE Null]
  /\ hexContent =
       [c \in GridCells(ScenarioGrid, ScenarioGrid) |->
          IF c = ScenarioCell
            THEN [EmptyContent EXCEPT !.terrain = "Forest", !.status = "discovered",
                                      !.locations = <<Item("Glade", FALSE), Item("Cave", FALSE)>>]
            ELSE EmptyContent]
  /\ past = <<>> /\ future = <<>>
  /\ nextId = 1
  /\ zoomLevel = Percent(120) /\ targetZoom = Percent(120)
  /\ panOffset = [x |-> 0, y |-> 0] /\ targetPan = [x |-> 0, y |-> 0]
  /\ isAnimating = FALSE /\ pendingFrames = {} /\ animationFrameRef = 0 /\ anchor = Null
  /\ selectedCoordinate \in {Null, ScenarioCell}
  /\ selectedMarker = Null
  /\ GeomIdle /\ DragIdle /\ MapIdle /\ HistIdle /\ LodIdle /\ CacheIdle
  /\ tooltip = Null /\ resolved = Null

ScenarioSlider == \E newZoom \in ScenarioZooms : handleZoomSliderChangeTo(newZoom)

NextScenario == ScenarioSlider \/ AnimationFrame

SpecScenario == InitScenario /\ [][NextScenario]_vars

\* A frame has an operation of this kind for the scenario's cell.
Draws(frame, name) ==
  \E i \in 1 .. Len(frame) : frame[i].op = name /\ frame[i].coord = ScenarioCell

\* C27. Scenario A: the row getLOD gives for zoom 1.2 has count badges and
\* coordinate labels enabled and terrain labels disabled, and the row for
\* zoom 1.8 has terrain labels enabled; so the frame at zoom 1.2 shows the
\* cell's count badge and coordinates and no terrain label, and the frame at
\* zoom 1.8, reached by zooming, shows the terrain label "Forest".
C27_ScenarioA ==
  LET frame == draw
      labels == { i \in 1 .. Len(frame) : frame[i].op = "terrainLabel" }
  IN  /\ getLOD(Percent(120)).showCountBadges
      /\ getLOD(Percent(120)).showCoordLabels
      /\ ~getLOD(Percent(120)).showTerrainLabels
      /\ getLOD(Percent(180)).showTerrainLabels
      /\ zoomLevel = Percent(120) =>
           /\ Draws(frame, "countBadge") /\ Draws(frame, "coordLabel")
           /\ labels = {}
      /\ zoomLevel = Percent(180) =>
           \E i \in labels : frame[i] = Op("terrainLabel", ScenarioCell, "Forest")
      /\ labels # {} <=> zoomLevel >= Percent(150)

\* The camera, started at 1.2, has arrived at 1.8 and the label is drawn.
C27_Witness ==
  /\ zoomLevel = Percent(180) /\ lastEvent = "frame" /\ ~isAnimating
  /\ Draws(draw, "terrainLabel")

(***************************************************************************)
(* FigurineCache (weather.ts): an LRU cache of figurine images, keyed by   *)
(* glyph, colour and size.  An image is named by the load that produced    *)
(* it; the cache is the Map's entries in insertion order.                  *)
(***************************************************************************)
maxSize == 2            \* the constructor's argument

MaxLoads == 3           \* generations started in one behaviour

MaxClock == 2           \* the last reading of Date.now()

FigurineSizeNames == <<"small", "medium", "large">>

CacheTypes ==
  { [id |-> "party", defaultColor |-> "#FFD700"],
    [id |-> "homebrew", defaultColor |-> "#336699"] }

\* MARKER_TO_GLYPH[typeId] || 'marker-pin'
getGlyphIdForMarker(typeId) == IF typeId = "party" THEN "party" ELSE "marker-pin"

\* `${glyphId}-${color}-${size}`: one key for each glyph, colour and size.
getKey(glyphId, color, size) == <<glyphId, color, size>>

CacheKeys ==
  { getKey(getGlyphIdForMarker(t.id), t.defaultColor, FigurineSizeNames[s]) :
      t \in CacheTypes, s \in 1 .. Len(FigurineSizeNames) }

NoKey == <<>>           \* '' in evictLRU

Infinity == MaxClock + 1

NoImage == 0            \* undefined

CacheIndex(entries, key) ==
  IF \E i \in 1 .. Len(entries) : entries[i].key = key
    THEN CHOOSE i \in 1 .. Len(entries) : entries[i].key = key
    ELSE 0

MapDelete(entries, key) == SelectSeq(entries, LAMBDA e : e.key # key)

\* Map.set: a present key keeps its place, a new key goes last.
MapSet(entries, key, image, now) ==
  LET entry == [key |-> key, image |-> image, lastUsed |-> now]
      i == CacheIndex(entries, key)
  IN  IF i = 0 THEN Append(entries, entry) ELSE [entries EXCEPT ![i] = entry]

\* The loop of evictLRU: the first entry whose lastUsed is below all before it.
RECURSIVE OldestFrom(_, _, _, _)
OldestFrom(entries, i, oldestKey, oldestTime) ==
  IF i > Len(entries) THEN oldestKey
  ELSE IF entries[i].lastUsed < oldestTime
    THEN OldestFrom(entries, i + 1, entries[i].key, entries[i].lastUsed)
    ELSE OldestFrom(entries, i + 1, oldestKey, oldestTime)

evictLRUWhenOver(entries) ==
  IF Len(entries) <= maxSize THEN entries
  ELSE LET oldestKey == OldestFrom(entries, 1, NoKey, Infinity)
       IN  IF oldestKey # NoKey THEN MapDelete(entries, oldestKey) ELSE entries

evictLRU(entries) ==
  IF Len(entries) < maxSize THEN entries
  ELSE LET oldestKey == OldestFrom(entries, 1, NoKey, Infinity)
       IN  IF oldestKey # NoKey THEN MapDelete(entries, oldestKey) ELSE entries

\* The state of the cache object with what the calls so far returned/started.
CacheState(entries, promises, started, ret) ==
  [cache |-> entries, loadingPromises |-> promises, loads |-> started, ret |-> ret]

\* A getImage that does not look at loadingPromises.
getImageWithoutDedup(st, key, now) ==
  LET i == CacheIndex(st.cache, key)
  IN  IF i # 0
        THEN [st EXCEPT !.cache[i].lastUsed = now, !.ret = st.cache[i].image]
      ELSE [st EXCEPT !.loads = Append(@, [key |-> key, status |-> "pending"]),
                      !.loadingPromises[key] = Len(st.loads) + 1,
                      !.ret = NoImage]

\* getImage up to the promise it returns: a hit refreshes the entry, a key
\* being loaded returns the stored promise, otherwise a generation starts
\* and its promise is stored.  ret is the image of a hit, else NoImage.
getImage(st, key, now) ==
  LET i == CacheIndex(st.cache, key)
  IN  IF i # 0
        THEN [st EXCEPT !.cache[i].lastUsed = now, !.ret = st.cache[i].image]
      ELSE IF st.loadingPromises[key] # 0
        THEN [st EXCEPT !.ret = NoImage]
      ELSE [st EXCEPT !.loads = Append(@, [key |-> key, status |-> "pending"]),
                      !.loadingPromises[key] = Len(st.loads) + 1,
                      !.ret = NoImage]

getImageSyncNoRefresh(st, key, now) ==
  LET i == CacheIndex(st.cache, key)
  IN  IF i # 0 THEN [st EXCEPT !.ret = st.cache[i].image] ELSE [st EXCEPT !.ret = NoImage]

getImageSync(st, key, now) ==
  LET i == CacheIndex(st.cache, key)
  IN  IF i # 0
        THEN [st EXCEPT !.cache[i].lastUsed = now, !.ret = st.cache[i].image]
        ELSE [st EXCEPT !.ret = NoImage]

\* The keys preload asks for: each type in turn, each size in turn.
RECURSIVE PreloadKeys(_)
PreloadKeys(markerTypes) ==
  IF markerTypes = <<>> THEN <<>>
  ELSE LET type == Head(markerTypes)
       IN  [s \in 1 .. Len(FigurineSizeNames) |->
              getKey(getGlyphIdForMarker(type.id), type.defaultColor, FigurineSizeNames[s])]
           \o PreloadKeys(Tail(markerTypes))

RECURSIVE GetImages(_, _, _)
GetImages(st, keys, now) ==
  IF keys = <<>> THEN st ELSE GetImages(getImage(st, Head(keys), now), Tail(keys), now)

preload(st, markerTypes, now) == GetImages(st, PreloadKeys(markerTypes), now)

\* The rest of a load after its await: evict, store, forget the promise.
LoadResolved(st, id, now) ==
  LET key == st.loads[id].key
  IN  [st EXCEPT !.cache = MapSet(evictLRU(st.cache), key, id, now),
                 !.loadingPromises[key] = 0,
                 !.loads[id].status = "resolved",
                 !.ret = id]

clear(st) ==
  [st EXCEPT !.cache = <<>>, !.loadingPromises = [k \in CacheKeys |-> 0], !.ret = NoImage]

(***************************************************************************)
(* The cache under calls from outside and loads that end in any order.     *)
(* cacheLog records the last call: its name, its key, what it returned and *)
(* the entries it evicted, and, over the behaviour, when each key was last *)
(* used and which keys have failed since the last clear().                 *)
(***************************************************************************)
Here == CacheState(cache, loadingPromises, loads, NoImage)

Logged(op, key, st) ==
  /\ cache' = st.cache
  /\ loadingPromises' = st.loadingPromises
  /\ loads' = st.loads
  /\ cacheLog' =
       [op |-> op, key |-> key, ret |-> st.ret,
        evicted |-> IF op = "resolve"
                      THEN { e \in { cache[i] : i \in 1 .. Len(cache) } :
                               CacheIndex(evictLRU(cache), e.key) = 0 }
                      ELSE {},
        used |-> IF op = "clear" THEN [k \in CacheKeys |-> 0]
                 ELSE IF op \in {"getImage", "getImageSync", "resolve"} /\ st.ret # NoImage
                   THEN [cacheLog.used EXCEPT ![key] = clock]
                 ELSE IF op = "preload"
                   THEN [k \in CacheKeys |->
                           IF CacheIndex(cache, k) # 0
                              /\ \E i \in 1 .. Len(key) : key[i] = k
                             THEN clock ELSE cacheLog.used[k]]
                 ELSE cacheLog.used,
        failed |-> IF op = "clear" THEN {}
                   ELSE IF op = "reject" THEN cacheLog.failed \cup {key}
                   ELSE cacheLog.failed]
  /\ UNCHANGED <<clock, lodVars, renderVars, gridVars, geomVars, storeVars, camVars, selVars,
                 dragVars, mapVars, histVars>>

PreloadInputs == { <<t>> : t \in { u \in CacheTypes : u.id = "party" } }

\* The figurines asked for one at a time.
DirectKeys ==
  { getKey("party", "#FFD700", "small"), getKey("party", "#FFD700", "medium"),
    getKey("marker-pin", "#336699", "small") }

InitCache ==
  /\ gridWidth = 1 /\ gridHeight = 1
  /\ GeomIdle /\ StoreIdle /\ CamAtRest /\ SelIdle /\ DragIdle /\ MapIdle /\ HistIdle
  /\ LodIdle /\ RenderIdle
  /\ cache = <<>>
  /\ loadingPromises = [k \in CacheKeys |-> 0]
  /\ loads = <<>>
  /\ clock = 0
  /\ cacheLog = [op |-> "new", key |-> NoKey, ret |-> NoImage, evicted |-> {},
                 used |-> [k \in CacheKeys |-> 0], failed |-> {}]

CallGetImage ==
  \E key \in DirectKeys :
    LET st == getImage(Here, key, clock)
    IN  /\ Len(st.loads) <= MaxLoads
        /\ Logged("getImage", key, st)

CallGetImageSync ==
  \E key \in DirectKeys : Logged("getImageSync", key, getImageSync(Here, key, clock))

CallPreload ==
  \E markerTypes \in PreloadInputs :
    LET st == preload(Here, markerTypes, clock)
    IN  /\ Len(st.loads) <= MaxLoads
        /\ Logged("preload", PreloadKeys(markerTypes), st)

CallClear == Logged("clear", NoKey, clear(Here))

\* img.onload: the awaiting load goes on.
LoadCompletes ==
  \E id \in 1 .. Len(loads) :
    /\ loads[id].status = "pending"
    /\ Logged("resolve", loads[id].key, LoadResolved(Here, id, clock))

\* img.onerror, or generateFigurineSVG throwing: the load's promise rejects
\* and nothing after the await runs.
LoadFails ==
  \E id \in 1 .. Len(loads) :
    /\ loads[id].status = "pending"
    /\ Logged("reject", loads[id].key,
              [Here EXCEPT !.loads[id].status = "rejected"])

\* Date.now() moves on.
Tick ==
  /\ clock < MaxClock
  /\ clock' = clock + 1
  /\ UNCHANGED <<cache, loadingPromises, loads, cacheLog, lodVars, renderVars, gridVars,
                 geomVars, storeVars, camVars, selVars, dragVars, mapVars, histVars>>

NextCache ==
  \/ CallGetImage \/ CallGetImageSync \/ CallPreload \/ CallClear
  \/ LoadCompletes \/ LoadFails \/ Tick

SpecCache == InitCache /\ [][NextCache]_vars

Entries == { cache[i] : i \in 1 .. Len(cache) }

\* C28. Cache bound: whatever getImage, getImageSync, preload and clear calls
\* were made, and in whatever order the loads in flight ended, the cache holds
\* at most maxSize images (and one entry for a key).
C28_CacheBound ==
  /\ Len(cache) <= maxSize
  /\ \A i, j \in 1 .. Len(cache) : cache[i].key = cache[j].key => i = j

\* Three loads for three keys were in flight at once and the one started first
\* ended last, into a full cache, which is full again after it.
C28_Witness ==
  /\ cacheLog.op = "resolve" /\ cacheLog.ret = 1 /\ cacheLog.evicted # {}
  /\ Len(loads) = MaxLoads
  /\ \A id \in 1 .. Len(loads) : loads[id].status = "resolved"
  /\ Len(cache) = maxSize

\* C29. LRU victim: every cached entry's lastUsed is the time of its key's
\* last use (its insertion, or its last getImage or getImageSync hit), and an
\* entry evicted by a load's insertion into the full cache was used no later
\* than any entry cached then.
C29_LruVictim ==
  /\ [](\A e \in Entries : e.lastUsed = cacheLog.used[e.key])
  /\ [][loads' # loads =>
          \A e \in cacheLog'.evicted :
            /\ cacheLog'.op = "resolve" /\ Len(cache) = maxSize /\ e \in Entries
            /\ \A other \in Entries : cacheLog.used[e.key] <= cacheLog.used[other.key]]_vars

\* An insertion has evicted the entry inserted last, because the one inserted
\* before it was used again since, by a getImageSync or getImage hit.
C29_Witness ==
  /\ cacheLog.op = "resolve" /\ Len(cache) = maxSize
  /\ \E e \in cacheLog.evicted :
       /\ cache[1].key # cacheLog.key
       /\ cache[1].image < e.image
       /\ e.lastUsed < cache[1].lastUsed

\* C30. Generation failure: once generation for a key has failed and clear()
\* has not been called since, no call starts a generation for that key and
\* getImageSync for that key returns undefined.
C30_FailureSticks ==
  /\ [](cacheLog.op = "getImageSync" /\ cacheLog.key \in cacheLog.failed
          => cacheLog.ret = NoImage)
  /\ [][\A id \in Len(loads) + 1 .. Len(loads') :
          loads'[id].key \notin cacheLog.failed]_vars

(***************************************************************************)
(* The undo history at its limit: one cell is edited (UPDATE_HEX) between  *)
(* two values, with UNDO and REDO, for as long as it takes to fill past.   *)
(***************************************************************************)
\* case 'UPDATE_HEX': the cell at action.hex.coordinate becomes action.hex.
ReduceUpdateHex(S, coord, hex) == Edited(S, [S.hexes EXCEPT ![coord] = hex])

HistoryCell == Coord(0, 0)

HistoryHexes == { HexWith(<<>>), HexWith(<<createMarker(1, "party", Undefined, Null)>>) }

InitHistory ==
  /\ gridWidth = 1 /\ gridHeight = 1
  /\ hexes = [c \in GridCells(1, 1) |-> Null]
  /\ past = <<>> /\ future = <<>>
  /\ nextId = 2
  /\ GeomIdle /\ CamAtRest /\ SelIdle /\ DragIdle /\ MapIdle /\ HistIdle /\ ViewIdle

\* An edit of the cell to a value it does not have.
StoreUpdateHex ==
  /\ \E hex \in HistoryHexes \ {hexes[HistoryCell]} :
       Dispatch(ReduceUpdateHex(StoreState, HistoryCell, hex))
  /\ UNCHANGED <<viewVars, gridVars, geomVars, nextId, camVars, selVars, dragVars, mapVars, histVars>>

NextHistory == StoreUpdateHex \/ StoreUndo \/ StoreRedo

SpecHistory == InitHistory /\ [][NextHistory]_vars

\* C31. Undo history bound: after any sequence of edits, UNDO and REDO the
\* undo stack holds at most MAX_HISTORY_SIZE campaign states (REDO appends
\* without slicing, but past and future together never exceed the limit).
C31_HistoryBound ==
  /\ Len(past) <= MAX_HISTORY_SIZE
  /\ Len(past) + Len(future) <= MAX_HISTORY_SIZE

\* The stack is full after more edits than it holds: the campaign as first
\* loaded has been dropped from it.
C31_Witness ==
  /\ Len(past) = MAX_HISTORY_SIZE /\ future = <<>>
  /\ past[1][HistoryCell] # Null

ThresholdPress == Screen(35, 30)

ThresholdPoints ==
  { Screen(35, 30), Screen(38, 34), Screen(40, 36), Screen(27, 30), Screen(35, 38),
    Screen(36, 38), Screen(41, 36), Screen(45, 60) }

ThresholdStart == HookStartDragAt(Marker1, Coord(0, 0), ThresholdPress)

ThresholdMove == \E p \in ThresholdPoints, dt \in FrameTimes : HookUpdateDragAt(p, dt)

NextThreshold == ThresholdStart \/ ThresholdMove \/ HookEndDrag \/ DropTimer

SpecThreshold == Init /\ [][NextThreshold]_vars

\* The squared travel of a move from the press point.
TravelSq(screen) ==
  (screen.x - dragStartRef.x) * (screen.x - dragStartRef.x)
    + (screen.y - dragStartRef.y) * (screen.y - dragStartRef.y)

\* C33. Drag threshold boundary, as stated: a pending gesture stays pending
\* on every move whose distance from the press point does not exceed 8 px
\* and becomes dragging on the first move whose distance exceeds it.
C33_ThresholdExceeded ==
  [][(lastEvent' = "updateDrag" /\ drag.phase = "pending" /\ dragStartRef # Null) =>
       drag'.phase = IF TravelSq(drag'.currentPosition) > DRAG_THRESHOLD * DRAG_THRESHOLD
                       THEN "dragging" ELSE "pending"]_vars

\* C33, amended. A pending gesture stays pending on every move whose distance
\* from the press point is below 8 px and becomes dragging on the first move
\* whose distance is 8 px or more; only the pointer position changes on the
\* moves that leave it pending.
C33_ThresholdReached ==
  [][(lastEvent' = "updateDrag" /\ drag.phase = "pending" /\ dragStartRef # Null) =>
       IF TravelSq(drag'.currentPosition) >= DRAG_THRESHOLD * DRAG_THRESHOLD
         THEN drag'.phase = "dragging" /\ calls' = <<"onDragStart", "onPickup">>
         ELSE drag' = [drag EXCEPT !.currentPosition = drag'.currentPosition]
              /\ calls' = <<>>]_vars

\* A move to exactly 8 px from the press point has turned the pending gesture
\* into a drag.
C33_Witness ==
  /\ lastEvent = "updateDrag" /\ prevPhase = "pending" /\ drag.phase = "dragging"
  /\ dragStartRef # Null /\ TravelSq(drag.currentPosition) = DRAG_THRESHOLD * DRAG_THRESHOLD

(***************************************************************************)
(* coordinateAt on points off every boundary of its arithmetic (no point   *)
(* at 30 from a centre, none on a row boundary), where doubles and exact   *)
(* arithmetic take the same branches.                                      *)
(***************************************************************************)
NearestOffsets == {-29, -27, -22, -8, 0, 8, 22, 27, 29}

NearestProbes ==
  { Point(hexCenter(Coord(q, r)).x + dx, SurdAdd(hexCenter(Coord(q, r)).y, Surd(dy, 0))) :
      <<q, r, dx, dy>> \in ((-1) .. MaxGridW) \X ((-1) .. MaxGridH)
                             \X NearestOffsets \X NearestOffsets }

InitNearest ==
  /\ StoreIdle /\ CamAtRest /\ SelIdle /\ DragIdle /\ MapIdle /\ HistIdle /\ ViewIdle
  /\ gridWidth \in 1 .. MaxGridW
  /\ gridHeight \in 1 .. MaxGridH
  /\ gPoint \in NearestProbes
  /\ gResult = Null
  /\ gDone = FALSE

SpecNearest == InitNearest /\ [][NextGeom]_vars

\* C34. Nearest-centre resolution: whenever coordinateAt returns a cell, no
\* other cell of the grid has its centre strictly nearer to the point than
\* the centre of the cell returned.
C34_NearestCenter ==
  (gDone /\ gResult # Null) =>
    \A c \in GridCells(gridWidth, gridHeight) :
      ~SurdLess(DistSq(gPoint, hexCenter(c)), DistSq(gPoint, hexCenter(gResult)))

\* C35. At most one drop resolution per gesture: a release invokes onDragEnd
\* only for a gesture that is pending or dragging; the releases that follow
\* it, while the phase is dropping or idle, invoke neither onDragEnd nor the
\* store.
C35_OneDropResolution ==
  [][(lastEvent' = "release" /\ drag.phase \in {"dropping", "idle"}) =>
       /\ \A i \in 1 .. Len(calls') : calls'[i] # "onDragEnd"
       /\ UNCHANGED storeVars]_vars

\* C36. A cross-cell drop is one undoable step: the UNDO that directly follows
\* a drop which moved the marker to another cell puts the marker back in the
\* source cell's list as it was before the drag, explicit position included,
\* and takes it out of the target cell's list.
C36_DropIsOneUndo ==
  [][(lastEvent = "release" /\ Invoked("moveMarker") /\ lastEvent' = "undo") =>
       /\ FindMarker(MarkersOrEmpty(hexes'[drag.sourceHex]), drag.marker.id) = drag.marker
       /\ FindMarker(MarkersOrEmpty(hexes'[lastRelease]), drag.marker.id) = Null]_vars

(***************************************************************************)
(* Selection and the delete key, with marker gestures and undo.            *)
(***************************************************************************)
\* handleKeyDown, 'delete' or 'backspace', with a marker selected:
\* removeMarker(selectedMarker.hexCoord, selectedMarker.markerId), then
\* selectMarker(null).
DeleteKey ==
  /\ selectedMarker # Null
  /\ LET after == ReduceRemoveMarker(StoreState, selectedMarker.hexCoord,
                                    selectedMarker.markerId)
     IN  /\ Len(after.past) <= MaxDragEdits
         /\ Dispatch(after)
  /\ selectedMarker' = Null
  /\ UNCHANGED selectedCoordinate
  /\ History("delete", Null, <<"removeMarker", "selectMarker">>)
  /\ UNCHANGED <<viewVars, gridVars, geomVars, nextId, camVars, dragVars, mapVars>>

NextSelect ==
  \/ MouseDownOnMarker \/ MouseMoveOnMarker \/ MouseUpOnMarker \/ DropTimer
  \/ DeleteKey \/ Undo

SpecSelect == Init /\ [][NextSelect]_vars

\* C37. Selection follows ownership: the cell recorded with the selected
\* marker is the cell whose list holds that marker, and the delete key takes
\* the selected marker out of the store.
C37_SelectionFollowsOwnership ==
  /\ [](selectedMarker # Null =>
          FindMarker(MarkersOrEmpty(hexes[selectedMarker.hexCoord]),
                     selectedMarker.markerId) # Null)
  /\ [][(lastEvent' = "delete") =>
          \A c \in GridCells(gridWidth, gridHeight) :
            FindMarker(MarkersOrEmpty(hexes'[c]), selectedMarker.markerId) = Null]_vars

(***************************************************************************)
(* Drag-to-pan with the camera: presses off the markers, moves, releases,  *)
(* the pointer leaving the canvas, pan keys, and the animation at every    *)
(* tick between them.                                                      *)
(***************************************************************************)
InitPan ==
  /\ gridWidth = DragGridW /\ gridHeight = DragGridH
  /\ hexes = RenderCampaign
  /\ hexContent = RenderContent
  /\ past = <<>> /\ future = <<>>
  /\ nextId = 8
  /\ zoomLevel = Percent(120)
  /\ targetZoom = zoomLevel
  /\ panOffset = [x |-> 0, y |-> 0] /\ targetPan = [x |-> 0, y |-> 0]
  /\ isAnimating = FALSE /\ pendingFrames = {} /\ animationFrameRef = 0 /\ anchor = Null
  /\ GeomIdle /\ SelIdle /\ DragIdle /\ MapIdle /\ HistIdle /\ LodIdle /\ CacheIdle
  /\ tooltip = Null /\ resolved = Null

\* Where the pointer goes: on cell (0,1) clear of its marker, and off the
\* grid.
PanPoints == { Screen(54, 72), Screen(240, 240) }

\* One gesture is followed, from its press with the camera at rest; the key
\* comes at any moment after that press.
PanMouseDown == gestures = 0 /\ \E p \in PanPoints : MouseDownOnMapAt(p)

PanMouseMove == \E p \in PanPoints : MouseMoveOnMapAt(p)

PanMouseUp == \E p \in PanPoints : MouseUpOnMapAt(p)

\* The D key.
PanKeyRight == gestures > 0 /\ PanKeyBy([x |-> -PAN_SPEED, y |-> 0])

NextPan ==
  \/ PanMouseDown \/ PanMouseMove \/ PanMouseUp \/ MouseLeave
  \/ PanKeyRight \/ AnimationFrame

SpecPan == InitPan /\ [][NextPan]_vars

\* C38. Pan target in sync with drag-panning: whenever the animation loop is
\* idle and no map drag is in progress, the current pan equals the pan
\* target, whether the last drag ended by a release or by the pointer
\* leaving the canvas.
C38_PanTargetInSync ==
  (~isAnimating /\ ~rafScheduled /\ ~isDraggingMap) => panOffset = targetPan

(***************************************************************************)
(* The cache of an application that never calls clear(): getImage,         *)
(* getImageSync and preload calls, and loads that end in any order.        *)
(***************************************************************************)
NextDedup ==
  \/ CallGetImage \/ CallGetImageSync \/ CallPreload
  \/ LoadCompletes \/ LoadFails \/ Tick

SpecDedup == InitCache /\ [][NextDedup]_vars

\* The loads for key that neither resolved nor rejected yet.
InFlight(key) ==
  { id \in 1 .. Len(loads) : loads[id].key = key /\ loads[id].status = "pending" }

\* The load whose promise a getImage call for key returns on a miss: the
\* stored one, or the one the call stores.
Awaited(key) == getImage(Here, key, clock).loadingPromises[key]

\* C39. In-flight deduplication, clear() not being called: while a generation
\* for a key is in flight, a getImage call for that key (direct or from
\* preload) starts no generation and returns the promise of the one in
\* flight, so every caller gets that generation's image; at most one
\* generation per key is in flight at any time.
C39_InFlightDedup ==
  /\ [](\A key \in CacheKeys :
          /\ Cardinality(InFlight(key)) <= 1
          /\ \A id \in InFlight(key) :
               /\ CacheIndex(cache, key) = 0
               /\ getImage(Here, key, clock).loads = loads
               /\ Awaited(key) = id)
  /\ [][\A id \in Len(loads) + 1 .. Len(loads') : InFlight(loads'[id].key) = {}]_vars

\* getImage was called for a key whose generation, the first of two, was in
\* flight and still is.
C39_Witness ==
  /\ cacheLog.op = "getImage" /\ cacheLog.ret = NoImage
  /\ Len(loads) = 2
  /\ loads[1].key = cacheLog.key /\ loads[2].key # cacheLog.key
  /\ InFlight(cacheLog.key) = {1}

====
